---- MODULE Spec2Model ----
(***************************************************************************)
(* Model of the adapter layer of ds.ts: the marker-text parser             *)
(* (ChatAdapter.parse), the JSON parser (JSONAdapter.parse), and the       *)
(* run/stream pipeline with its fallback from ChatAdapter to JSONAdapter.  *)
(*                                                                         *)
(* Text is modelled as a sequence of tokens.  A token stands for a         *)
(* substring: one whitespace character, one opaque word, one digit, one    *)
(* complete field header `[[ ## name ## ]]`, or one complete JSON          *)
(* document.  Concatenating tokens concatenates the substrings.            *)
(***************************************************************************)
EXTENDS Integers, Sequences, FiniteSets, TLC

\* ------------------------------------------------------------------------
\* Bounds
\* ------------------------------------------------------------------------
\* Longest completion (in tokens) the parser is applied to.
MaxLen == 4

\* ------------------------------------------------------------------------
\* Tokens
\* ------------------------------------------------------------------------
SP == "SP"
LF == "LF"
CR == "CR"
Whitespace == {SP, LF, CR}

\* Names that can occur between the header delimiters (\w+).
HeaderNames == {"a1", "a2", "completed", "constructor", "q1", "q2", "history"}

Header(name) == CASE name = "a1" -> "[[ ## a1 ## ]]"
                  [] name = "a2" -> "[[ ## a2 ## ]]"
                  [] name = "completed" -> "[[ ## completed ## ]]"
                  [] name = "constructor" -> "[[ ## constructor ## ]]"
                  [] name = "q1" -> "[[ ## q1 ## ]]"
                  [] name = "q2" -> "[[ ## q2 ## ]]"
                  [] name = "history" -> "[[ ## history ## ]]"

HeaderToks == {Header(n) : n \in HeaderNames}

\* Capture group 1 of FIELD_HEADER_PATTERN.
HeaderName(tok) == CHOOSE n \in HeaderNames : Header(n) = tok

\* Property names every plain object inherits from Object.prototype; the
\* `in` operator answers true for them on `{}`.
ObjectPrototypeKeys == {"constructor", "toString", "valueOf", "hasOwnProperty"}

\* ------------------------------------------------------------------------
\* Values
\* ------------------------------------------------------------------------
Str(s) == [t |-> "str", s |-> s, n |-> 0]
Num(n) == [t |-> "num", s |-> <<>>, n |-> n]
Bool(b) == [t |-> "bool", s |-> <<>>, n |-> IF b THEN 1 ELSE 0]
\* a function value (e.g. Object.prototype.constructor)
Obj == [t |-> "obj", s |-> <<>>, n |-> 0]
\* the object or array whose JSON text is the token tok
Json(tok) == [t |-> "json", s |-> <<tok>>, n |-> 0]
Null == [t |-> "null", s |-> <<>>, n |-> 0]
Undefined == [t |-> "undefined", s |-> <<>>, n |-> 0]

\* ------------------------------------------------------------------------
\* Signatures: ordered output fields and their zod types
\* ------------------------------------------------------------------------
SigAnswer == [id |-> "q -> a1", output |-> <<"a1">>,
              types |-> [a1 |-> "string"]]
SigTwo == [id |-> "q -> a1, a2: number", output |-> <<"a1", "a2">>,
           types |-> [a1 |-> "string", a2 |-> "number"]]
SigProto == [id |-> "q -> constructor", output |-> <<"constructor">>,
             types |-> [constructor |-> "string"]]
\* an output field that bears the name of the end-of-output sentinel
SigCompleted == [id |-> "q -> completed", output |-> <<"completed">>,
                 types |-> [completed |-> "string"]]
Signatures == {SigAnswer, SigTwo, SigProto, SigCompleted}

\* Signatures built from zod objects, with fields that are no text.
SigScalars == [id |-> "q -> a1, a2: number, b: boolean",
               output |-> <<"a1", "a2", "b">>,
               types |-> [a1 |-> "string", a2 |-> "number", b |-> "boolean"]]
SigObject == [id |-> "q -> o: {k: number}", output |-> <<"o">>,
              types |-> [o |-> "object"]]
SigList == [id |-> "q -> l: number[]", output |-> <<"l">>,
            types |-> [l |-> "array"]]
TypedSignatures == {SigScalars, SigObject, SigList}
SigFlag == [id |-> "q -> a1: boolean", output |-> <<"a1">>,
            types |-> [a1 |-> "boolean"]]

Range(seq) == {seq[i] : i \in 1..Len(seq)}

\* signature.output_fields (the zod shape of the output schema)
output_fields(signature) == Range(signature.output)

\* ------------------------------------------------------------------------
\* String helpers
\* ------------------------------------------------------------------------
RECURSIVE TrimStart(_)
TrimStart(text) ==
  IF text # <<>> /\ Head(text) \in Whitespace THEN TrimStart(Tail(text))
  ELSE text

RECURSIVE TrimEnd(_)
TrimEnd(text) ==
  IF text # <<>> /\ text[Len(text)] \in Whitespace
  THEN TrimEnd(SubSeq(text, 1, Len(text) - 1))
  ELSE text

\* String.prototype.trim
Trim(text) == TrimEnd(TrimStart(text))

\* completion.split(/\r?\n/)
RECURSIVE SplitFrom(_, _, _)
SplitFrom(text, i, cur) ==
  IF i > Len(text) THEN <<cur>>
  ELSE IF text[i] = LF THEN <<cur>> \o SplitFrom(text, i + 1, <<>>)
  ELSE IF text[i] = CR /\ i < Len(text) /\ text[i + 1] = LF
       THEN <<cur>> \o SplitFrom(text, i + 2, <<>>)
  ELSE SplitFrom(text, i + 1, Append(cur, text[i]))

SplitLines(text) == SplitFrom(text, 1, <<>>)

\* lines.join("\n")
RECURSIVE JoinLines(_)
JoinLines(lines) ==
  IF lines = <<>> THEN <<>>
  ELSE IF Len(lines) = 1 THEN lines[1]
  ELSE lines[1] \o <<LF>> \o JoinLines(Tail(lines))


\* ------------------------------------------------------------------------
\* JSON.parse and parseValue
\* ------------------------------------------------------------------------
Digit == "7"

\* Tokens that are one complete JSON object/array document each.
JsonDocToks == {"{a1:x}", "{a1:x,a2:7}", "{a1:x,a2:x}", "{a1:7}",
                "{constructor:x}", "[]", "{k:7}", "[7]",
                "{a1:x,a2:7,b:true}", "{o:{k:7}}", "{l:[7]}"}

\* Own enumerable keys and values of the document a token denotes.
JsonDoc(tok) ==
  CASE tok = "{a1:x}" -> [a1 |-> Str(<<"x">>)]
    [] tok = "{a1:x,a2:7}" -> [a1 |-> Str(<<"x">>), a2 |-> Num(7)]
    [] tok = "{a1:x,a2:x}" -> [a1 |-> Str(<<"x">>), a2 |-> Str(<<"x">>)]
    [] tok = "{a1:7}" -> [a1 |-> Num(7)]
    [] tok = "{constructor:x}" -> [constructor |-> Str(<<"x">>)]
    [] tok = "[]" -> <<>>
    [] tok = "{k:7}" -> [k |-> Num(7)]
    [] tok = "[7]" -> ("0" :> Num(7))
    [] tok = "{a1:x,a2:7,b:true}" ->
         [a1 |-> Str(<<"x">>), a2 |-> Num(7), b |-> Bool(TRUE)]
    [] tok = "{o:{k:7}}" -> [o |-> Json("{k:7}")]
    [] tok = "{l:[7]}" -> [l |-> Json("[7]")]

AllDigits(text) == text # <<>> /\ \A i \in 1..Len(text) : text[i] = Digit

\* The number a run of digit tokens denotes ("7" "7" is 77).
RECURSIVE DigitsValue(_)
DigitsValue(text) ==
  IF text = <<>> THEN 0
  ELSE 10 * DigitsValue(SubSeq(text, 1, Len(text) - 1)) + 7

\* The decimal text of a number made of sevens.
RECURSIVE DigitsText(_)
DigitsText(n) == IF n < 7 THEN <<>> ELSE Append(DigitsText(n \div 10), Digit)

\* JSON.parse(text): [ok, prim, value, doc].  JSON ignores surrounding
\* whitespace; the text must be exactly one JSON value.  `true` and `false`
\* are literals in lower case only; Infinity and NaN are no JSON.
JSONparse(text) ==
  LET t == Trim(text) IN
  IF AllDigits(t)
  THEN [ok |-> TRUE, prim |-> TRUE, value |-> Num(DigitsValue(t)), doc |-> <<>>]
  ELSE IF t \in {<<"true">>, <<"false">>}
  THEN [ok |-> TRUE, prim |-> TRUE, value |-> Bool(t = <<"true">>), doc |-> <<>>]
  ELSE IF Len(t) = 1 /\ t[1] \in JsonDocToks
  THEN [ok |-> TRUE, prim |-> FALSE, value |-> Json(t[1]), doc |-> JsonDoc(t[1])]
  ELSE [ok |-> FALSE, prim |-> FALSE, value |-> Obj, doc |-> <<>>]

Threw == [ok |-> FALSE, value |-> Obj]
Returned(v) == [ok |-> TRUE, value |-> v]

\* String(value): the text JSON.parse sees when it is handed a value that is
\* not a string.  An array prints its elements, an object "[object Object]".
ToText(value) ==
  CASE value.t = "str" -> value.s
    [] value.t = "num" -> DigitsText(value.n)
    [] value.t = "bool" -> IF value.n = 1 THEN <<"true">> ELSE <<"false">>
    [] value = Json("[7]") -> <<Digit>>
    [] value = Json("[]") -> <<>>
    [] OTHER -> <<"[object Object]">>

\* schema.parse(parsed) returns (the schemas of the model: z.string(),
\* z.number(), z.boolean(), z.object({k: z.number()}), z.array(z.number())).
SchemaAccepts(schema, v) ==
  CASE schema = "string" -> v.t = "str"
    [] schema = "number" -> v.t = "num"
    [] schema = "boolean" -> v.t = "bool"
    [] schema = "object" -> v = Json("{k:7}")
    [] schema = "array" -> v \in {Json("[7]"), Json("[]")}

\* toLowerCase() of a one-word text
LowerCase(t) ==
  IF t \in {<<"TRUE">>, <<"true">>} THEN <<"true">>
  ELSE IF t \in {<<"False">>, <<"false">>} THEN <<"false">>
  ELSE t

\* Number(t) of a trimmed text: the empty text is 0, "Infinity" is
\* infinite, what is no numeric literal is NaN.
NumberOfText(t) ==
  IF t = <<>> THEN [nan |-> FALSE, finite |-> TRUE, n |-> 0]
  ELSE IF AllDigits(t) THEN [nan |-> FALSE, finite |-> TRUE, n |-> DigitsValue(t)]
  ELSE IF t = <<"Infinity">> THEN [nan |-> FALSE, finite |-> FALSE, n |-> 0]
  ELSE [nan |-> TRUE, finite |-> FALSE, n |-> 0]

\* The catch block of parseValue: the direct conversion for z.number() and
\* z.boolean().  value.trim() is a TypeError when value is no string;
\* z.number() rejects an infinite number.
DirectConversion(schema, value) ==
  IF schema \notin {"number", "boolean"} \/ value.t # "str" THEN Threw
  ELSE IF schema = "number"
  THEN LET num == NumberOfText(Trim(value.s)) IN
       IF ~num.nan /\ num.finite THEN Returned(Num(num.n)) ELSE Threw
  ELSE LET bool == LowerCase(Trim(value.s)) IN
       IF bool = <<"true">> THEN Returned(Bool(TRUE))
       ELSE IF bool = <<"false">> THEN Returned(Bool(FALSE))
       ELSE Threw

\* parseValue(schema, value): value is the section text (a string) in
\* ChatAdapter.parse and a JSON value in JSONAdapter.parse.
parseValue(schema, value) ==
  IF schema = "string"
  THEN \* value.trim(): a TypeError when value is not a string
       IF value.t = "str" THEN Returned(Str(Trim(value.s))) ELSE Threw
  ELSE \* JSON.parse(value), then schema.parse(parsed)
       LET parsed == JSONparse(ToText(value)) IN
       IF parsed.ok /\ SchemaAccepts(schema, parsed.value)
       THEN Returned(parsed.value)
       ELSE DirectConversion(schema, value)


\* ------------------------------------------------------------------------
\* ChatAdapter.parse: the marker-text parser
\* ------------------------------------------------------------------------
\* Key of the leading section, `null` in the code.
NoHeader == "<null>"

\* FIELD_HEADER_PATTERN.exec(trimmed): the pattern is anchored at the start.
HeaderMatch(trimmed) == trimmed # <<>> /\ Head(trimmed) \in HeaderToks

\* mutant: what follows the header on its own line is dropped
ScanLineDropsRest(sections, line) ==
  LET trimmed == Trim(line) IN
  IF HeaderMatch(trimmed)
  THEN Append(sections, [k |-> HeaderName(Head(trimmed)), v |-> <<>>])
  ELSE LET last == sections[Len(sections)] IN
       [sections EXCEPT ![Len(sections)] =
          [k |-> last.k, v |-> Append(last.v, line)]]

\* One iteration of the line loop: `sections` after `line`.
ScanLine(sections, line) ==
  LET trimmed == Trim(line) IN
  IF HeaderMatch(trimmed)
  THEN LET header == HeaderName(Head(trimmed))
           remainingContent == Trim(Tail(trimmed))
       IN Append(sections,
                 [k |-> header,
                  v |-> IF remainingContent # <<>> THEN <<remainingContent>>
                        ELSE <<>>])
  ELSE LET last == sections[Len(sections)] IN
       [sections EXCEPT ![Len(sections)] =
          [k |-> last.k, v |-> Append(last.v, line)]]

RECURSIVE ScanLines(_, _)
ScanLines(sections, lines) ==
  IF lines = <<>> THEN sections
  ELSE ScanLines(ScanLine(sections, Head(lines)), Tail(lines))

\* `sections` after the loop over completion.split(/\r?\n/)
Sections(completion) ==
  ScanLines(<<[k |-> NoHeader, v |-> <<>>]>>, SplitLines(completion))

\* sectionMap: [k, v.join("\n").trim()]
SectionMap(completion) ==
  LET sections == Sections(completion) IN
  [i \in 1..Len(sections) |->
     [k |-> sections[i].k, v |-> Trim(JoinLines(sections[i].v))]]

\* mutant: a key already in the result is not recognised
KeyInOnlyInherited(k, obj) == k \in ObjectPrototypeKeys

\* `k in obj` on a plain object: own keys and inherited ones.
KeyIn(k, obj) == k \in DOMAIN obj \/ k \in ObjectPrototypeKeys

\* `k in signature.output_fields`
InOutputFields(k, signature) ==
  k \in output_fields(signature) \/ k \in ObjectPrototypeKeys

\* mutant: only checks that no key of the result is foreign
sameKeysSubset(signature, result) ==
  \A k \in DOMAIN result : k \in output_fields(signature)

\* sameKeys(signature.output_fields, result)
sameKeys(signature, result) ==
  /\ Len(signature.output) = Cardinality(DOMAIN result)
  /\ \A k \in output_fields(signature) : k \in DOMAIN result

NoParsedResult == [present |-> FALSE, map |-> <<>>]
ParsedResult(result) == [present |-> TRUE, map |-> result]
NoError == [name |-> "none", adapter_name |-> "", signature |-> "",
            lm_response |-> <<>>, message |-> "", parsed_result |-> NoParsedResult]

\* new AdapterParseError(adapter_name, signature, lm_response, message,
\*                       parsed_result)
AdapterParseError(adapter_name, signature, lm_response, message, parsed_result) ==
  [name |-> "AdapterParseError", adapter_name |-> adapter_name,
   signature |-> signature.id, lm_response |-> lm_response,
   message |-> message, parsed_result |-> parsed_result]

ParseOk(result) == [ok |-> TRUE, result |-> result, error |-> NoError]
ParseThrew(error) == [ok |-> FALSE, result |-> <<>>, error |-> error]

Put(result, k, v) ==
  [x \in DOMAIN result \cup {k} |-> IF x = k THEN v ELSE result[x]]

\* The loop over sectionMap, from entry i on, with `result` so far.
RECURSIVE ResultLoop(_, _, _, _, _, _)
ResultLoop(signature, completion, allow_partial_output, sectionMap, i, result) ==
  IF i > Len(sectionMap) THEN ParseOk(result)
  ELSE
    LET k == sectionMap[i].k
        v == sectionMap[i].v
    IN
    IF k # NoHeader /\ ~KeyIn(k, result) /\ InOutputFields(k, signature)
    THEN LET r == parseValue(signature.types[k], Str(v)) IN
         IF r.ok
         THEN ResultLoop(signature, completion, allow_partial_output,
                         sectionMap, i + 1, Put(result, k, r.value))
         ELSE IF allow_partial_output
         THEN ResultLoop(signature, completion, allow_partial_output,
                         sectionMap, i + 1, Put(result, k, Str(v)))
         ELSE ParseThrew(AdapterParseError("ChatAdapter", signature, completion,
                                           "Failed to parse field", NoParsedResult))
    ELSE ResultLoop(signature, completion, allow_partial_output,
                    sectionMap, i + 1, result)

\* The result loop and the final key check, given the section map.
ParseSectionMap(signature, completion, allow_partial_output, sectionMap) ==
  LET loop == ResultLoop(signature, completion, allow_partial_output,
                         sectionMap, 1, <<>>)
  IN
  IF ~loop.ok THEN loop
  ELSE IF ~sameKeys(signature, loop.result) /\ ~allow_partial_output
  THEN ParseThrew(AdapterParseError("ChatAdapter", signature, completion,
                                    "Expected output fields",
                                    ParsedResult(loop.result)))
  ELSE ParseOk(loop.result)

ChatAdapter_parse(signature, completion, allow_partial_output) ==
  ParseSectionMap(signature, completion, allow_partial_output,
                  SectionMap(completion))


\* ------------------------------------------------------------------------
\* JSONAdapter.parse
\* ------------------------------------------------------------------------
\* data[name]: an own value, or what the prototype chain holds
DataGet(data, name) == IF name \in DOMAIN data THEN data[name] ELSE Obj

\* The loop over Object.entries(signature.output_fields), from field i on.
\* ok = FALSE stands for an exception that is not an AdapterParseError.
RECURSIVE JsonFieldLoop(_, _, _, _)
JsonFieldLoop(signature, data, i, result) ==
  IF i > Len(signature.output) THEN [ok |-> TRUE, result |-> result]
  ELSE
    LET name == signature.output[i] IN
    IF KeyIn(name, data)
    THEN LET r == parseValue(signature.types[name], DataGet(data, name)) IN
         IF r.ok
         THEN JsonFieldLoop(signature, data, i + 1, Put(result, name, r.value))
         ELSE [ok |-> FALSE, result |-> result]
    ELSE JsonFieldLoop(signature, data, i + 1, result)

\* mutant: an exception of the JSON path is not handed to ChatAdapter.parse
JSONAdapter_parseNoDelegate(signature, completion, allow_partial_output) ==
  LET parsed == JSONparse(completion)
      loop == JsonFieldLoop(signature, parsed.doc, 1, <<>>)
  IN
  IF ~parsed.ok \/ parsed.prim \/ ~loop.ok
     \/ (~sameKeys(signature, loop.result) /\ ~allow_partial_output)
  THEN ParseThrew(AdapterParseError("JSONAdapter", signature, completion,
                                    "Expected output fields", NoParsedResult))
  ELSE ParseOk(loop.result)

JSONAdapter_parse(signature, completion, allow_partial_output) ==
  LET parsed == JSONparse(completion) IN
  IF ~parsed.ok \/ parsed.prim
  THEN \* SyntaxError, or TypeError of `name in data` on a primitive
       IF parsed.ok /\ signature.output = <<>>
       THEN ParseOk(<<>>)
       ELSE ChatAdapter_parse(signature, completion, allow_partial_output)
  ELSE
    LET loop == JsonFieldLoop(signature, parsed.doc, 1, <<>>) IN
    IF ~loop.ok
    THEN ChatAdapter_parse(signature, completion, allow_partial_output)
    ELSE IF ~sameKeys(signature, loop.result) /\ ~allow_partial_output
    THEN ParseThrew(AdapterParseError("JSONAdapter", signature, completion,
                                      "Expected output fields",
                                      ParsedResult(loop.result)))
    ELSE ParseOk(loop.result)


\* ------------------------------------------------------------------------
\* format_field_value and the assistant message of ChatAdapter
\* ------------------------------------------------------------------------
\* the character `"`, and the two characters `\n` JSON.stringify writes for
\* a line feed
DQ == "DQ"
EscapedLF == "\\n"

\* JSON.stringify of the characters of a string
EscapeChars(text) ==
  [i \in 1..Len(text) |-> IF text[i] = LF THEN EscapedLF ELSE text[i]]

\* JSON.stringify(value, null, 2) inside a template literal: a string comes
\* out as a JSON string literal, between double quotes; `undefined` stays
\* undefined and the template prints the word.
JSONstringify(value) ==
  CASE value.t = "str" -> <<DQ>> \o EscapeChars(value.s) \o <<DQ>>
    [] value.t = "num" -> DigitsText(value.n)
    [] value.t = "bool" -> IF value.n = 1 THEN <<"true">> ELSE <<"false">>
    [] value.t = "null" -> <<"null">>
    [] value.t = "json" -> value.s
    [] OTHER -> <<"undefined">>

\* format_field_value(field, value) for a field that is no custom type and
\* a value that is no array
format_field_value(field, value) == JSONstringify(value)

\* parts.join("\n\n")
RECURSIVE JoinBlank(_)
JoinBlank(parts) ==
  IF parts = <<>> THEN <<>>
  ELSE IF Len(parts) = 1 THEN parts[1]
  ELSE parts[1] \o <<LF, LF>> \o JoinBlank(Tail(parts))

\* outputs[name], `undefined` for a key the object does not have
ValueOf(values, name) ==
  IF name \in DOMAIN values THEN values[name] ELSE Undefined

\* ChatAdapter.format_field_with_value(fields, values)
format_field_with_value(sig, fields, values) ==
  JoinBlank([i \in 1..Len(fields) |->
               <<Header(fields[i]), LF>>
                 \o format_field_value(sig.types[fields[i]],
                                       ValueOf(values, fields[i]))])

\* ChatAdapter.format_assistant_message_content(signature, outputs, options):
\* outputs[name] ?? options?.missing_field_message
ChatAdapter_format_assistant_message_content(sig, outputs, missing_field_message) ==
  LET outputs_map ==
        [name \in Range(sig.output) |->
           IF ValueOf(outputs, name) \in {Null, Undefined}
           THEN missing_field_message
           ELSE outputs[name]]
  IN format_field_with_value(sig, sig.output, outputs_map)
       \o <<LF, LF, Header("completed"), LF>>


\* ------------------------------------------------------------------------
\* Adapter.format: system message, demos, conversation history, main turn
\* ------------------------------------------------------------------------
\* Signatures with their input fields; `flagged` holds the input fields
\* whose meta() has history === true.
FSigPlain == [id |-> "q1, q2 -> a1", input |-> <<"q1", "q2">>,
              output |-> <<"a1">>, flagged |-> {},
              types |-> [q1 |-> "string", q2 |-> "string", a1 |-> "string"]]
FSigHistory == [id |-> "history: History, q1 -> a1",
                input |-> <<"history", "q1">>, output |-> <<"a1">>,
                flagged |-> {"history"},
                types |-> [history |-> "array", q1 |-> "string",
                           a1 |-> "string"]]

NoHistory == "<undefined>"

\* _get_history_field_name(signature): the first flagged input field
HistoryFieldName(sig) ==
  IF \E i \in 1..Len(sig.input) : sig.input[i] \in sig.flagged
  THEN sig.input[CHOOSE i \in 1..Len(sig.input) :
                   /\ sig.input[i] \in sig.flagged
                   /\ \A j \in 1..(i - 1) : sig.input[j] \notin sig.flagged]
  ELSE NoHistory

\* signature.delete("input", name)
SignatureDelete(sig, name) ==
  [sig EXCEPT !.input = SelectSeq(sig.input, LAMBDA k : k # name)]

\* An array value and its elements.
Array(elements) == [t |-> "array", s |-> elements, n |-> 0]

Disclaimer ==
  "This is an example of the task, though some input or output fields are not supplied."
NotSuppliedExample == Str(<<"Not supplied for this particular example. ">>)
NotSuppliedHistory == Str(<<"Not supplied for this conversation history message. ">>)

\* user_message_output_requirements(signature) of the two adapters
user_message_output_requirements(adapterClass, sig) ==
  IF adapterClass = "JSONAdapter"
  THEN <<"Respond with a JSON object in the following order of fields: ">>
  ELSE <<"Respond with the corresponding output fields, starting with the field ">>

\* mutant: the instruction is appended to every user message
AppendsRequirementsAlways(main_request) == TRUE

\* if (main_request) messages.push(user_message_output_requirements(...))
AppendsRequirements(main_request) == main_request

\* messages.filter(Boolean)
NonEmptyParts(parts) == SelectSeq(parts, LAMBDA part : part # <<>>)

\* ChatAdapter.format_user_message_content (JSONAdapter inherits it)
format_user_message_content(adapterClass, sig, inputs, prefix, main_request) ==
  LET given == SelectSeq(sig.input, LAMBDA k : KeyIn(k, inputs))
      fields == [i \in 1..Len(given) |->
                   <<Header(given[i]), LF>>
                     \o format_field_value(sig.types[given[i]],
                                           DataGet(inputs, given[i]))]
      requirements ==
        IF AppendsRequirements(main_request)
        THEN <<user_message_output_requirements(adapterClass, sig)>>
        ELSE <<>>
  IN Trim(JoinBlank(NonEmptyParts(<<prefix>> \o fields \o requirements)))

\* JSONAdapter.format_assistant_message_content: JSON.stringify of the
\* object of the output values (a key whose value is undefined is left out)
JSONAdapter_format_assistant_message_content(sig, outputs) ==
  LET defined == SelectSeq(sig.output,
                           LAMBDA k : ValueOf(outputs, k) # Undefined)
      members == [i \in 1..Len(defined) |->
                    <<DQ, defined[i], DQ, ":", SP>>
                      \o JSONstringify(outputs[defined[i]])]
  IN <<"{">> \o JoinBlank(members) \o <<"}">>

format_assistant_message_content(adapterClass, sig, outputs, missing_field_message) ==
  IF adapterClass = "JSONAdapter"
  THEN JSONAdapter_format_assistant_message_content(sig, outputs)
  ELSE ChatAdapter_format_assistant_message_content(sig, outputs,
                                                    missing_field_message)

\* A message; `part` and `of` record which loop pushed it and for which
\* element of demos or of the history.
Message(role, content, part, of) ==
  [role |-> role, content |-> content, part |-> part, of |-> of]

\* The [user, assistant] pairs of the listed elements, in the list's order.
RECURSIVE Pairs(_, _, _, _, _, _, _)
Pairs(adapterClass, sig, items, idxs, part, prefix, missing_field_message) ==
  IF idxs = <<>> THEN <<>>
  ELSE LET i == Head(idxs) IN
       << Message("user",
                  format_user_message_content(adapterClass, sig, items[i],
                                              prefix, FALSE),
                  part, i),
          Message("assistant",
                  format_assistant_message_content(adapterClass, sig, items[i],
                                                   missing_field_message),
                  part, i) >>
         \o Pairs(adapterClass, sig, items, Tail(idxs), part, prefix,
                  missing_field_message)

\* is_complete, has_input, has_output of format_demos
is_complete(sig, demo) ==
  \A key \in Range(sig.input) : ValueOf(demo, key) \notin {Undefined, Null}
has_input(sig, demo) ==
  \E key \in Range(sig.input) : ValueOf(demo, key) # Undefined
has_output(sig, demo) ==
  \E key \in Range(sig.output) : ValueOf(demo, key) # Undefined

Indices(items) == [i \in 1..Len(items) |-> i]

\* mutant: the complete demos are pushed before the incomplete ones
format_demosCompleteFirst(adapterClass, sig, demoList) ==
  LET complete_demos ==
        SelectSeq(Indices(demoList), LAMBDA i : is_complete(sig, demoList[i]))
      incomplete_demos ==
        SelectSeq(Indices(demoList),
                  LAMBDA i : /\ ~is_complete(sig, demoList[i])
                             /\ has_input(sig, demoList[i])
                             /\ has_output(sig, demoList[i]))
  IN Pairs(adapterClass, sig, demoList, complete_demos, "demo", <<>>,
           NotSuppliedHistory)
       \o Pairs(adapterClass, sig, demoList, incomplete_demos, "demo",
                <<Disclaimer>>, NotSuppliedExample)

\* Adapter.format_demos(signature, demos, context)
format_demos(adapterClass, sig, demoList) ==
  LET complete_demos ==
        SelectSeq(Indices(demoList), LAMBDA i : is_complete(sig, demoList[i]))
      incomplete_demos ==
        SelectSeq(Indices(demoList),
                  LAMBDA i : /\ ~is_complete(sig, demoList[i])
                             /\ has_input(sig, demoList[i])
                             /\ has_output(sig, demoList[i]))
  IN Pairs(adapterClass, sig, demoList, incomplete_demos, "demo",
           <<Disclaimer>>, NotSuppliedExample)
       \o Pairs(adapterClass, sig, demoList, complete_demos, "demo", <<>>,
                NotSuppliedHistory)

\* !history || !Array.isArray(history)
IsHistoryArray(inputs, historyFieldName) ==
  ValueOf(inputs, historyFieldName).t = "array"

\* mutant: only the first record of the history is rendered
format_conversation_historyFirstOnly(adapterClass, sig, historyFieldName, inputs) ==
  IF ~IsHistoryArray(inputs, historyFieldName) THEN <<>>
  ELSE LET history == inputs[historyFieldName].s IN
       Pairs(adapterClass, sig, history,
             IF history = <<>> THEN <<>> ELSE <<1>>, "history", <<>>, Undefined)

\* Adapter.format_conversation_history: the messages it returns.  The third
\* argument it passes to format_assistant_message_content is the context
\* map, which has no missing_field_message.
format_conversation_history(adapterClass, sig, historyFieldName, inputs) ==
  IF ~IsHistoryArray(inputs, historyFieldName) THEN <<>>
  ELSE LET history == inputs[historyFieldName].s IN
       Pairs(adapterClass, sig, history, Indices(history), "history", <<>>,
             Undefined)

\* delete inputs[historyFieldName], reached only for an array
\* mutant: inputsCopy is the caller's object itself
NoSpread(object) == object

\* const inputsCopy = { ...inputs }: the object `inputsCopy` refers to, a new
\* one with the own properties of `object`.
ObjectSpread(object) == "inputsCopy"

DeleteHistory(inputs, historyFieldName) ==
  IF IsHistoryArray(inputs, historyFieldName)
  THEN [k \in DOMAIN inputs \ {historyFieldName} |-> inputs[k]]
  ELSE inputs


\* ------------------------------------------------------------------------
\* Custom types: placeholders, the context map and the content blocks
\* ------------------------------------------------------------------------
\* Most input fields of a formatted signature, and most calls of format.
MaxFields == 2
MaxCalls == 2

\* The values crypto.randomUUID() returns; 0 stands for an id it never
\* returned.  A call returns a value it did not return before.
Uuids == 1..(MaxFields * MaxCalls)

\* One stretch of a message text: a character, the header line of the i-th
\* field, or `${CUSTOM_TYPE_START_IDENTIFIER}${id}${CUSTOM_TYPE_END_IDENTIFIER}`.
Text(tok) == [k |-> "text", s |-> tok, id |-> 0]
FieldHeader(i) == [k |-> "header", s |-> "", id |-> i]
Marker(id) == [k |-> "marker", s |-> "", id |-> id]

\* Image(), File() and a type of the caller whose meta.format returns an
\* array of blocks
CustomTypes == {"Image", "File", "Frames"}

\* is_custom_type(field): the meta of the field has a name and a format
is_custom_type(field) == field \in CustomTypes

\* A content block of a message.
Block(type, text, data) == [type |-> type, text |-> text, data |-> data]

\* meta.format(value) of the custom types
meta_format(field, value) ==
  CASE field = "Image" -> <<Block("image", <<>>, value)>>
    [] field = "File" -> <<Block("file", <<>>, value)>>
    [] OTHER -> <<Block("image", <<>>, value), Block("file", <<>>, value)>>

\* mutant: every entry is stored under one key
format_field_value_one_key(field, value, context, id) ==
  IF is_custom_type(field)
  THEN [string_value |-> <<Marker(1)>>,
        context |-> (1 :> [type |-> field, value |-> value]) @@ context]
  ELSE [string_value |-> <<Text(DQ)>> \o value \o <<Text(DQ)>>,
        context |-> context]

\* format_field_value(field, value, context) with `id` the value of
\* crypto.randomUUID(): the text it returns and the context map afterwards
format_field_value_in(field, value, context, id) ==
  IF is_custom_type(field)
  THEN [string_value |-> <<Marker(id)>>,
        context |-> (id :> [type |-> field, value |-> value]) @@ context]
  ELSE [string_value |-> <<Text(DQ)>> \o value \o <<Text(DQ)>>,
        context |-> context]

\* mutant: the pattern has no g flag, only the first marker is matched
matchFirst(content) ==
  LET all == SelectSeq([i \in 1..Len(content) |-> i],
                       LAMBDA i : content[i].k = "marker")
  IN IF all = <<>> THEN <<>> ELSE <<all[1]>>

\* content.matchAll(pattern): where the markers are, left to right
matchAll(content) ==
  SelectSeq([i \in 1..Len(content) |-> i], LAMBDA i : content[i].k = "marker")

\* The loop over the matches from match j on; st holds `result`, `last_end`
\* and whether the loop has thrown.
RECURSIVE SplitLoop(_, _, _, _, _)
SplitLoop(content, context, matches, j, st) ==
  IF j > Len(matches) THEN st
  ELSE LET start == matches[j]
           custom_type_id == content[start].id
           before == IF start - 1 > st.last_end
                     THEN <<Block("text",
                                  SubSeq(content, st.last_end + 1, start - 1),
                                  <<>>)>>
                     ELSE <<>>
       IN IF custom_type_id \in DOMAIN context
          THEN SplitLoop(content, context, matches, j + 1,
                 [ok |-> TRUE,
                  result |-> st.result \o before
                    \o meta_format(context[custom_type_id].type,
                                   context[custom_type_id].value),
                  last_end |-> start])
          ELSE [st EXCEPT !.ok = FALSE]

\* A message whose content is a string, and one whose content is a list of
\* blocks.
TextMessage(role, content) ==
  [role |-> role, isString |-> TRUE, content |-> content, blocks |-> <<>>]
BlockMessage(role, blocks) ==
  [role |-> role, isString |-> FALSE, content |-> <<>>, blocks |-> blocks]

\* One iteration of the loop over the messages.
SplitMessage(message, context) ==
  IF message.role # "user" \/ ~message.isString
  THEN [ok |-> TRUE, message |-> message]
  ELSE LET content == message.content
           st == SplitLoop(content, context, matchAll(content), 1,
                           [ok |-> TRUE, result |-> <<>>, last_end |-> 0])
           rest == IF st.last_end < Len(content)
                   THEN <<Block("text",
                                SubSeq(content, st.last_end + 1, Len(content)),
                                <<>>)>>
                   ELSE <<>>
       IN IF ~st.ok THEN [ok |-> FALSE, message |-> message]
          ELSE IF st.last_end = 0 THEN [ok |-> TRUE, message |-> message]
          ELSE [ok |-> TRUE,
                message |-> BlockMessage(message.role, st.result \o rest)]

\* split_message_content_for_custom_types(messages, context): the messages
\* it returns, or that it throws
split_message_content_for_custom_types(msgs, context) ==
  LET each == [i \in 1..Len(msgs) |-> SplitMessage(msgs[i], context)]
  IN [ok |-> \A i \in 1..Len(msgs) : each[i].ok,
      messages |-> [i \in 1..Len(msgs) |-> each[i].message]]

\* mutant: the context map is a field of the adapter, shared by its calls
SharedContext(heap) == IF heap = <<>> THEN <<<<>>>> ELSE heap

\* const context = {}: the maps allocated so far with the new one, which is
\* the last
NewContext(heap) == Append(heap, <<>>)

\* ------------------------------------------------------------------------
\* Adapter.stream: the generator of partial outputs and its consumers
\* ------------------------------------------------------------------------
\* Most deltas of one LM text stream.
MaxDeltas == 3

\* mutant: the parser is handed the delta alone
AccumulateLast(accumulatedText, delta) == delta

\* accumulatedText += delta
Accumulate(accumulatedText, delta) == accumulatedText \o delta

\* self.parse(signature, accumulatedText, true)
self_parse(cls, sig, text, partial) ==
  IF cls = "JSONAdapter" THEN JSONAdapter_parse(sig, text, partial)
  ELSE ChatAdapter_parse(sig, text, partial)

\* The generator after it has settled a request: it runs on for the next
\* queued request.  A queued return() completes it, which ends the for-await
\* over result.textStream and so releases that stream; the requests behind
\* it settle as done.
Resume(queued) ==
  IF queued # <<>> /\ queued[1] = "return"
  THEN [generator |-> "completed", requests |-> <<>>, released |-> TRUE]
  ELSE [generator |-> "awaiting", requests |-> queued, released |-> FALSE]

\* ------------------------------------------------------------------------
\* Signature: delete, withInstructions, dump_state, load_state
\* ------------------------------------------------------------------------
\* Most method calls in one history of signatures.
MaxOps == 2

\* infer_prefix(name) + ":" for the field names of the model
InferPrefix(name) ==
  CASE name \in {"q1", "q_1"} -> "Q 1:"
    [] name = "a1" -> "A 1:"
    [] name = "b" -> "B:"
    [] name = "constructor" -> "Constructor:"
    [] OTHER -> name

\* A string of instructions, and the text generateDefaultInstructions builds
\* from the field names.
Instructions(s) == [s |-> s, given |-> <<>>, produce |-> <<>>]
generateDefaultInstructions(input, output) ==
  [s |-> "Given the fields", given |-> input.names, produce |-> output.names]

\* A zod field schema: the object (id), its description, and the other
\* metadata of its meta(); a zod object schema: the object and its shape.
ZodField(id, description, original) ==
  [id |-> id, description |-> description, desc |-> "", original |-> original]
ZodObject(id, names, fields) == [id |-> id, names |-> names, fields |-> fields]

\* name in schema.shape: the shape is a plain object
KeyInShape(name, schema) ==
  name \in Range(schema.names) \/ name \in ObjectPrototypeKeys

\* Object.keys({ ...input.shape, ...output.shape })
AllNames(sig) ==
  sig.input.names
    \o SelectSeq(sig.output.names, LAMBDA n : n \notin Range(sig.input.names))

\* new Signature({ instructions, input, output, tools })
NewSignature(instructions, input, output, tools) ==
  LET sig == [input |-> input, output |-> output]
  IN [instructions |-> IF instructions.s # "" THEN instructions
                       ELSE generateDefaultInstructions(input, output),
      input |-> input,
      output |-> output,
      tools |-> tools,
      prefixes |-> [n \in Range(AllNames(sig)) |-> InferPrefix(n)]]

\* schema.omit({ [name]: true }) and schema.extend(patch): a new object
omit(schema, name, id) ==
  ZodObject(id, SelectSeq(schema.names, LAMBDA n : n # name),
            [n \in DOMAIN schema.fields \ {name} |-> schema.fields[n]])
extend(schema, patch, id) ==
  ZodObject(id, schema.names,
            [n \in DOMAIN schema.fields |->
               IF n \in DOMAIN patch THEN patch[n] ELSE schema.fields[n]])

\* Signature.delete(inputOrOutput, name); `id` is unused object identity
Signature_delete(sig, inputOrOutput, name, id) ==
  NewSignature(sig.instructions,
    IF KeyInShape(name, sig.input) /\ inputOrOutput = "input"
    THEN omit(sig.input, name, id + 1) ELSE sig.input,
    IF KeyInShape(name, sig.output) /\ inputOrOutput = "output"
    THEN omit(sig.output, name, id + 2) ELSE sig.output,
    "undefined")

\* Signature.withInstructions(instructions)
withInstructions(sig, instructions) ==
  NewSignature(instructions, sig.input, sig.output, "undefined")

\* Signature.dump_state()
dump_state(sig) ==
  LET names == AllNames(sig)
      field(n) == IF n \in Range(sig.output.names) THEN sig.output.fields[n]
                  ELSE sig.input.fields[n]
  IN [instructions |-> sig.instructions,
      fields |-> [i \in 1..Len(names) |->
                    [prefix |-> sig.prefixes[names[i]],
                     description |->
                       IF field(names[i]).description # ""
                       THEN field(names[i]).description
                       ELSE field(names[i]).desc]]]

\* prefixToName[prefix]: the last field with that prefix; a prefix that is a
\* property of Object.prototype gives that property
prefixToName(sig, prefix) ==
  LET hits == SelectSeq(AllNames(sig), LAMBDA n : sig.prefixes[n] = prefix)
  IN IF hits # <<>> THEN [kind |-> "name", name |-> hits[Len(hits)]]
     ELSE IF prefix \in ObjectPrototypeKeys
     THEN [kind |-> "inherited", name |-> prefix]
     ELSE [kind |-> "undefined", name |-> ""]

\* The loop over state.fields from entry i on; st holds the two patches and
\* whether the loop has thrown (a TypeError: `describe` of what is no
\* schema).
RECURSIVE LoadLoop(_, _, _, _, _)
LoadLoop(sig, fieldStates, i, id, st) ==
  IF i > Len(fieldStates) THEN st
  ELSE LET fieldState == fieldStates[i]
           found == prefixToName(sig, fieldState.prefix)
           name == found.name
           isInput == KeyInShape(name, sig.input)
           own == IF isInput THEN name \in Range(sig.input.names)
                  ELSE name \in Range(sig.output.names)
           field == IF isInput THEN sig.input.fields[name]
                    ELSE sig.output.fields[name]
           updatedField == [field EXCEPT !.id = id + i,
                                         !.description = fieldState.description,
                                         !.desc = fieldState.description]
       IN IF found.kind = "undefined"
          THEN LoadLoop(sig, fieldStates, i + 1, id, st)
          ELSE IF found.kind = "inherited" \/ ~own
          THEN [st EXCEPT !.ok = FALSE]
          ELSE LoadLoop(sig, fieldStates, i + 1, id,
                 IF isInput
                 THEN [st EXCEPT !.inputPatch = Put(@, name, updatedField)]
                 ELSE [st EXCEPT !.outputPatch = Put(@, name, updatedField)])

\* Signature.load_state(state): the signature it returns, or that it throws
load_state(sig, state, id) ==
  LET st == LoadLoop(sig, state.fields, 1, id,
                     [ok |-> TRUE, inputPatch |-> <<>>, outputPatch |-> <<>>])
      n == Len(state.fields)
  IN IF ~st.ok THEN [ok |-> FALSE, signature |-> sig]
     ELSE [ok |-> TRUE,
           signature |->
             NewSignature(state.instructions,
                          extend(sig.input, st.inputPatch, id + n + 1),
                          extend(sig.output, st.outputPatch, id + n + 2),
                          sig.tools)]

\* mutant: the method writes the receiver and returns it
assign_this(heap, receiver, sig) == [heap EXCEPT ![receiver] = sig]

\* The objects after `new Signature(...)` in a method of `receiver`.
new_Signature(heap, receiver, sig) == Append(heap, sig)

\* The object a method returned: the new one, the last of the heap.
Returned_(before, after, receiver) ==
  IF Len(after) > Len(before) THEN Len(after) ELSE receiver

\* Module.load_state(state): predictor.load_state(state[name]) for each named
\* predictor in turn, which is
\* this.signature = this.signature.load_state(state)
RECURSIVE Module_load_state(_, _, _, _, _, _)
Module_load_state(heap, refs, state, names, i, id) ==
  IF i > Len(names) THEN [ok |-> TRUE, heap |-> heap, refs |-> refs]
  ELSE LET name == names[i]
           r == load_state(heap[refs[name]], state[name], id)
           after == new_Signature(heap, refs[name], r.signature)
       IN IF ~r.ok THEN [ok |-> FALSE, heap |-> heap, refs |-> refs]
          ELSE Module_load_state(after,
                 [refs EXCEPT ![name] = Returned_(heap, after, refs[name])],
                 state, names, i + 1, id + Len(state[name].fields) + 2)

\* ------------------------------------------------------------------------
\* Field types: get_annotation_name and extract_custom_type_from_annotation
\* ------------------------------------------------------------------------
\* A zod schema object is a node of a heap: its def.type, the name of its
\* metadata ("" when it has none) and the schema objects its def refers to,
\* in the order of the def (shape values, options, items; element;
\* innerType; keyType then valueType; what getter() returns).
MaxNodes == 3

\* The deepest nesting of calls the engine allows before it throws
\* RangeError: Maximum call stack size exceeded.
MaxDepth == 5

ZodType(type, name, children) ==
  [type |-> type, name |-> name, children |-> children]

\* The keys of an object shape, in insertion order.
ShapeKeys == <<"a", "b">>

RECURSIVE JoinWith(_, _)
JoinWith(parts, sep) ==
  IF parts = <<>> THEN <<>>
  ELSE IF Len(parts) = 1 THEN parts[1]
  ELSE parts[1] \o <<sep>> \o JoinWith(Tail(parts), sep)

\* The template string of each case of the switch, given the names of the
\* nested types.
AnnotationName(type, parts) ==
  CASE type = "object" ->
         <<"object({ ">>
         \o JoinWith([i \in 1..Len(parts) |->
                        <<ShapeKeys[i], ": ">> \o parts[i]], ", ")
         \o <<" })">>
    [] type = "array" -> <<"array(">> \o parts[1] \o <<")">>
    [] type = "tuple" -> <<"tuple([">> \o JoinWith(parts, ", ") \o <<"])">>
    [] type = "union" -> <<"union(">> \o JoinWith(parts, " | ") \o <<")">>
    [] type = "intersection" ->
         <<"intersection(">> \o parts[1] \o <<", ">> \o parts[2] \o <<")">>
    [] type = "record" ->
         <<"record(">> \o parts[1] \o <<", ">> \o parts[2] \o <<")">>
    [] type = "map" ->
         <<"map(">> \o parts[1] \o <<", ">> \o parts[2] \o <<")">>
    [] type = "set" -> <<"set(">> \o parts[1] \o <<")">>
    [] type = "promise" -> <<"promise(">> \o parts[1] \o <<")">>
    [] type = "lazy" -> <<"lazy(() => ">> \o parts[1] \o <<")">>
    [] type \in {"optional", "nullable", "readonly", "catch", "pipe"} ->
         <<type, "(">> \o parts[1] \o <<")">>
    [] OTHER -> <<type>>

\* One activation of get_annotation_name(schema): the nested call it makes
\* next and the names the earlier ones returned; getter counts the calls of
\* def.getter() this activation has made.
NameFrame(schema) ==
  [schema |-> schema, next |-> 1, parts |-> <<>>, getter |-> 0]

\* The nested schemas extract_custom_type_from_annotation descends into:
\* the switch has no case for map, set and function.
Traversed(node) ==
  CASE node.type \in {"object", "union", "discriminatedUnion", "tuple",
                      "intersection"} -> node.children
    [] node.type \in {"array", "optional", "nullable", "default", "readonly",
                      "catch", "promise", "lazy", "pipe"} -> node.children
    [] node.type = "record" -> <<node.children[2]>>
    [] OTHER -> <<>>

\* As Traversed, with cases for map (keyType, valueType) and set.
TraversedAll(node) ==
  IF node.type = "record" THEN <<node.children[2]>> ELSE node.children

RECURSIVE extract_custom_type_from_annotation(_, _, _)
RECURSIVE ExtractEach(_, _, _)

\* result.push(...extract_custom_type_from_annotation(child)) for each child
\* in turn; a throw of one ends the loop.
ExtractEach(heap, children, depth) ==
  IF children = <<>> THEN [ok |-> TRUE, result |-> <<>>]
  ELSE LET first == extract_custom_type_from_annotation(heap, children[1],
                                                         depth)
       IN IF ~first.ok THEN first
          ELSE LET rest == ExtractEach(heap, Tail(children), depth)
               IN [ok |-> rest.ok, result |-> first.result \o rest.result]

\* The schema objects collected, as heap indices, or the RangeError of a
\* call nested deeper than the engine allows. The lazy case catches what
\* the nested call throws and pushes nothing.
extract_custom_type_from_annotation(heap, annotation, depth) ==
  IF depth > MaxDepth THEN [ok |-> FALSE, result |-> <<>>]
  ELSE LET node == heap[annotation]
           own == IF node.name # "" THEN <<annotation>> ELSE <<>>
           nested == ExtractEach(heap, Traversed(node), depth + 1)
       IN IF node.type = "lazy"
          THEN [ok |-> TRUE,
                result |-> IF nested.ok THEN own \o nested.result ELSE own]
          ELSE [ok |-> nested.ok, result |-> own \o nested.result]

\* ------------------------------------------------------------------------
\* Text blobs: _format_blob and _format_input_list_field_value
\* ------------------------------------------------------------------------
\* Most characters of a blob and most blobs of a list.
MaxBlobLen == 3
MaxBlobs == 2

LQ == "<<"
RQ == ">>"

\* Four spaces.
Indent == <<SP, SP, SP, SP>>

\* mutant: every occurrence is replaced, as with a /\n/g pattern
RECURSIVE replaceAll(_, _, _)
replaceAll(text, pattern, replacement) ==
  IF text = <<>> THEN <<>>
  ELSE IF Head(text) = pattern
       THEN replacement \o replaceAll(Tail(text), pattern, replacement)
       ELSE <<Head(text)>> \o replaceAll(Tail(text), pattern, replacement)

\* String.prototype.replace with a string pattern: the first occurrence only.
RECURSIVE replace(_, _, _)
replace(text, pattern, replacement) ==
  IF text = <<>> THEN <<>>
  ELSE IF Head(text) = pattern THEN replacement \o Tail(text)
       ELSE <<Head(text)>> \o replace(Tail(text), pattern, replacement)

_format_blob(blob) ==
  IF LF \notin Range(blob) /\ LQ \notin Range(blob) /\ RQ \notin Range(blob)
  THEN <<LQ>> \o blob \o <<RQ>>
  ELSE <<LQ, LQ, LQ, LF>> \o Indent
       \o replace(blob, LF, <<LF>> \o Indent)
       \o <<LF, RQ, RQ, RQ>>

\* The decimal text of idx + 1.
IndexText(i) == <<"1", "2", "3", "4">>[i]

_format_input_list_field_value(value) ==
  IF Len(value) = 0 THEN <<"N/A">>
  ELSE IF Len(value) = 1 THEN _format_blob(value[1])
  ELSE JoinWith([idx \in 1..Len(value) |->
                   <<"[", IndexText(idx), "]", SP>> \o _format_blob(value[idx])],
                LF)

\* ------------------------------------------------------------------------
\* State
\* ------------------------------------------------------------------------
VARIABLES
  \* one call of parse
  parser,                \* "ChatAdapter" or "JSONAdapter": whose parse is called
  signature,             \* the signature of the call
  completion,            \* the completion text
  allow_partial_output,  \* the flag of the call
  parsePc,               \* "ready", "returned", "raised"
  parseOut               \* what parse returned or threw

parseVars == <<parser, completion, allow_partial_output, parsePc, parseOut>>

VARIABLES
  \* one call of parseValue
  pvSchema,              \* the zod type of the field
  pvValue,               \* the value handed to parseValue
  pvPc,                  \* "ready", "returned", "threw"
  pvOut                  \* what parseValue returned

valueVars == <<pvSchema, pvValue, pvPc, pvOut>>

VARIABLES
  \* format_assistant_message_content followed by parse
  outputs                \* the output values that are formatted

VARIABLES
  \* one call of adapter.format(signature, demos, inputs)
  fAdapter,              \* class of the adapter
  fSig,                  \* the signature
  demos,                 \* the few-shot examples
  inputs,                \* the caller's inputs object
  inputsCopy,            \* { ...inputs }
  conversationHistory,   \* the messages of the history
  messages,              \* the messages built so far
  fpc                    \* position in format

formatVars == <<fAdapter, fSig, demos, inputs, inputsCopy, conversationHistory,
                messages, fpc>>


VARIABLES
  \* one call of adapter.run / adapter.stream
  op,                         \* "run" or "stream": the method the caller invoked
  self,                       \* class of the adapter it was invoked on
  use_json_adapter_fallback,  \* field of that adapter
  formatFailure,              \* which adapters' format throws on the inputs
  pc,                         \* position of the call
  adapter,                    \* class of the adapter whose pipeline is running
  attempt,                    \* 1 for the primary pipeline, 2 for the secondary
  lm_calls,                   \* the calls issued to the LM, in order
  result,                     \* the object the LM returned (Adapter.run's `result`)
  lmReturned,                 \* copy of that object as the LM returned it
  events,                     \* the steps taken so far, in order
  thrown,                     \* the errors thrown so far, in order
  outcome                     \* what the caller got

runVars == <<op, self, use_json_adapter_fallback, formatFailure, pc, adapter,
             attempt, lm_calls, result, lmReturned, events, thrown, outcome>>

VARIABLES
  \* calls of adapter.format on inputs with custom types
  maps,                  \* every context map allocated so far
  context,               \* the running call's `context`: index in maps, 0 outside
  uuids,                 \* the ids crypto.randomUUID() has returned
  cFields,               \* the input fields of the call: type and value
  cNext,                 \* the field format_user_message_content formats next
  cContent,              \* the user message text built so far
  cMessages,             \* what the call returned
  emitted,               \* the ids the call has put in markers, in order
  cpc,                   \* position of the call
  calls                  \* number of calls started

customVars == <<maps, context, uuids, cFields, cNext, cContent, cMessages,
                emitted, cpc, calls>>

CustomIdle ==
  /\ maps = <<>>
  /\ context = 0
  /\ uuids = {}
  /\ cFields = <<>>
  /\ cNext = 1
  /\ cContent = <<>>
  /\ cMessages = <<>>
  /\ emitted = <<>>
  /\ cpc = "idle"
  /\ calls = 0

VARIABLES
  \* the partialOutputStream of one adapter.stream call
  sSelf,                 \* class of the adapter (whose parse is self.parse)
  deltas,                \* the deltas result.textStream delivers
  pulled,                \* how many of them the generator has taken
  accumulatedText,       \* the generator's local
  parseCalls,            \* the calls of self.parse so far
  yielded,               \* the values the generator has yielded
  requests,              \* the generator's pending next()/return() calls
  generator,             \* "awaiting" a delta for requests[1], or "completed"
  queue,                 \* the values enqueued in the ReadableStream
  consumer,              \* "reader" or "iterator": how the caller consumes
  asked,                 \* the consumer's next() is pending
  received,              \* the values the consumer has got
  cancelled,             \* the consumer has cancelled
  released               \* the LM text stream has been released

streamVars == <<sSelf, deltas, pulled, accumulatedText, parseCalls, yielded,
                requests, generator, queue, consumer, asked, received,
                cancelled, released>>

StreamIdle ==
  /\ sSelf = "ChatAdapter"
  /\ deltas = <<>>
  /\ pulled = 0
  /\ accumulatedText = <<>>
  /\ parseCalls = <<>>
  /\ yielded = <<>>
  /\ requests = <<>>
  /\ generator = "idle"
  /\ queue = <<>>
  /\ consumer = "reader"
  /\ asked = FALSE
  /\ received = <<>>
  /\ cancelled = FALSE
  /\ released = FALSE

VARIABLES
  \* signatures and the predictors of two modules of one shape
  sigs,                  \* every Signature object constructed so far
  predictors,            \* module -> predictor name -> its `signature`
  nextId,                \* identity of the next zod schema object
  ops,                   \* number of method calls so far
  sop                    \* the last method call

stateVars == <<sigs, predictors, nextId, ops, sop>>

NoCall ==
  [op |-> "none", receiver |-> 0, module |-> "", before |-> <<>>,
   state |-> <<>>, states |-> <<>>, threw |-> FALSE, returned |-> 0]

StateIdle ==
  /\ sigs = <<>>
  /\ predictors = <<>>
  /\ nextId = 0
  /\ ops = 0
  /\ sop = NoCall

VARIABLES
  \* one module.run(input) on a tree of modules
  forward,               \* module -> the modules its forward runs, in order
  traces,                \* module -> its `traces`
  stack,                 \* the runs in progress: module, invocation, next
                         \* child, currentRunTrace; the innermost run last
  invocations,           \* number of runs started
  completed              \* the entries of the finished runs, in that order

traceVars == <<forward, traces, stack, invocations, completed>>

TraceIdle ==
  /\ forward = <<>>
  /\ traces = <<>>
  /\ stack = <<>>
  /\ invocations = 0
  /\ completed = <<>>

VARIABLES
  \* two module.run(input) in flight at once (Promise.all of two runs)
  roots,                 \* run -> the module it was called on
  runs,                  \* run -> its runs in progress, the innermost last
  tree,                  \* run -> the invocations of its call tree
  collected              \* run -> the trace it collected, once it is over

concVars == <<roots, runs, tree, collected>>

ConcIdle ==
  /\ roots = <<>>
  /\ runs = <<>>
  /\ tree = <<>>
  /\ collected = <<>>

VARIABLES
  \* one call of get_annotation_name or extract_custom_type_from_annotation
  schemas,               \* the zod schema objects; the argument is the first
  typeCall,              \* the function called
  frames,                \* the activations of get_annotation_name
  named,                 \* what get_annotation_name returned or threw
  extracted              \* what extract_custom_type_from_annotation returned

typeVars == <<schemas, typeCall, frames, named, extracted>>

NoName == [kind |-> "none", name |-> <<>>, getter |-> 0]

NoExtract == [kind |-> "none", result |-> <<>>]

TypeIdle ==
  /\ schemas = <<>>
  /\ typeCall = ""
  /\ frames = <<>>
  /\ named = NoName
  /\ extracted = NoExtract

VARIABLES
  \* one call of _format_input_list_field_value
  blobs,                 \* the list given as value
  string_value           \* what the call returned

blobVars == <<blobs, string_value>>

NotFormatted == <<"not formatted">>

BlobIdle ==
  /\ blobs = <<>>
  /\ string_value = NotFormatted

lateVars == <<concVars, typeVars, blobVars>>

LateIdle == ConcIdle /\ TypeIdle /\ BlobIdle

moreVars == <<customVars, streamVars, stateVars, traceVars, lateVars>>

MoreIdle == CustomIdle /\ StreamIdle /\ StateIdle /\ TraceIdle /\ LateIdle

vars == <<signature, parseVars, runVars, valueVars, outputs, formatVars,
          moreVars>>

\* ------------------------------------------------------------------------
\* Inputs of the parser
\* ------------------------------------------------------------------------
Tokens == Whitespace \cup {"x", Digit}
            \cup {Header(n) : n \in {"a1", "a2", "completed", "constructor"}}

SeqsUpTo(S, n) == UNION {[1..k -> S] : k \in 0..n}

H1 == Header("a1")
H2 == Header("a2")
HC == Header("completed")

\* The completions of the repository's parser tests, token by token.
TestCompletions ==
  { <<H1, LF, "x", LF, LF, HC>>,
    <<H1, LF, "x", SP, "x", LF, "x", LF, LF, HC>>,
    <<H1, LF, "x", LF, LF, H2, LF, Digit, LF, LF, HC>>,
    <<H1, LF, "x", LF, LF, H2, LF, "x", LF, LF, HC>>,
    <<"x", SP, "x">> }

\* Completions that are (or contain) one JSON document.
JsonCompletions ==
  UNION {{<<j>>, <<SP, j, LF>>, <<j, LF, H1, LF, "x">>} : j \in JsonDocToks}

\* Completions in which the header of one field occurs twice.
DuplicateCompletions ==
  { <<H1, LF, "x", LF, H1, LF, Digit>>,
    <<H2, LF, "x", LF, H2, LF, Digit>>,
    <<H1, LF, "x", LF, H2, LF, Digit, LF, H2, LF, "x", LF, H1, LF, Digit>> }

\* Completions the signatures with typed fields are parsed on.
TypedCompletions ==
  JsonCompletions \cup TestCompletions \cup SeqsUpTo({LF, "x", Digit, H1, H2}, 2)

Completions ==
  SeqsUpTo(Tokens, MaxLen) \cup TestCompletions \cup JsonCompletions
    \cup DuplicateCompletions

ParseIdle ==
  /\ parser = "ChatAdapter"
  /\ completion = <<>>
  /\ allow_partial_output = FALSE
  /\ parsePc = "idle"
  /\ parseOut = ParseOk(<<>>)

ValueIdle ==
  /\ pvSchema = "string"
  /\ pvValue = Str(<<>>)
  /\ pvPc = "idle"
  /\ pvOut = Threw

FormatIdle ==
  /\ fAdapter = "ChatAdapter"
  /\ fSig = FSigPlain
  /\ demos = <<>>
  /\ inputs = <<>>
  /\ inputsCopy = <<>>
  /\ conversationHistory = <<>>
  /\ messages = <<>>
  /\ fpc = "idle"

\* ------------------------------------------------------------------------
\* Adapter.run / Adapter.stream, ChatAdapter.run / .stream (the fallback),
\* JSONAdapter.run / .stream
\* ------------------------------------------------------------------------
\* The inputs make format throw in: no adapter; ChatAdapter only (a demo
\* holds a non-text value of a custom-typed output field, which ChatAdapter
\* formats without a context map and JSONAdapter serialises as JSON); both
\* (an input text holds a placeholder marker whose id is not in the map).
FormatFailures == {"none", "ChatAdapter", "both"}

formatThrows(adapterClass, failure) ==
  failure = "both" \/ (failure = "ChatAdapter" /\ adapterClass = "ChatAdapter")

NoOutput == <<>>
NoResult == [text |-> <<>>, finishReason |-> "", output |-> NoOutput]

\* Texts the LM answers with.
LMTexts == { <<H1, LF, "x">>,
             <<"x", SP, "x">>,
             <<H1, LF, "x", LF, H2, LF, Digit>>,
             <<"{a1:x}">> }

\* What generateText / streamText resolve to.  With an output spec the SDK
\* fills `output` with the structured value.
LMResults(withOutputSpec) ==
  { [text |-> t, finishReason |-> f,
     output |-> IF withOutputSpec THEN [a1 |-> Str(<<"x">>)] ELSE NoOutput] :
    t \in LMTexts, f \in {"stop", "length"} }

ResultProps == {"text", "finishReason", "output"}

NoOutcome == [kind |-> "none", proxy |-> FALSE, parsed |-> <<>>,
              error |-> [kind |-> "none", attempt |-> 0, error |-> NoError]]

Error(kind, n, e) == [kind |-> kind, attempt |-> n, error |-> e]

Event(n, ev, text) == [attempt |-> n, ev |-> ev, text |-> text]

\* mutant: the try block would also cover the secondary pipeline
InTryEveryAttempt(selfClass, n) == selfClass = "ChatAdapter"

\* Is the running pipeline inside the try block of ChatAdapter.run/stream?
\* JSONAdapter overrides run and stream without a try block.
InTry(selfClass, n) == selfClass = "ChatAdapter" /\ n = 1

\* mutant: the flag is not consulted
RethrowGuardIgnoresFlag(selfClass, fallback) == selfClass = "JSONAdapter"

\* mutant: the catch block always rethrows
RethrowGuardAlways(selfClass, fallback) == TRUE

\* this instanceof JSONAdapter || !this.use_json_adapter_fallback
RethrowGuard(selfClass, fallback) == selfClass = "JSONAdapter" \/ ~fallback

\* mutant: the first error is kept and raised instead of the latest one
RaisedFirst(errors) == errors[1]

\* The error a rejected promise carries to the caller: the one just thrown.
Raised(errors) == errors[Len(errors)]

\* mutant: the handler forgets the `output` property
ProxyGetNoOverride(target, parsed, prop) == target[prop]

\* The get trap of the Proxy Adapter.run returns.
ProxyGet(target, parsed, prop) ==
  IF prop = "output" THEN parsed ELSE target[prop]

\* mutant: parse is given an empty text instead of result.text
TextToParseStale(r) == <<>>

\* The completion Adapter.run hands to parse.
TextToParse(r) == r.text

\* Does the running method parse?  Adapter.run does; JSONAdapter.run and
\* both stream methods return without parsing.
Parses(method, adapterClass) == method = "run" /\ adapterClass = "ChatAdapter"

\* A throw in the running pipeline: caught by ChatAdapter's catch block or
\* carried to the caller.
Throw(e) ==
  /\ thrown' = Append(thrown, e)
  /\ IF InTry(self, attempt)
     THEN pc' = "catch" /\ outcome' = outcome
     ELSE /\ pc' = "done"
          /\ outcome' = [kind |-> "error", proxy |-> FALSE, parsed |-> <<>>,
                         error |-> Raised(Append(thrown, e))]

RunInputs == <<signature, parseVars, valueVars, outputs, formatVars, moreVars,
               op, self,
               use_json_adapter_fallback, formatFailure>>

\* const messages = this.format(signature, demos, inputs)
Format ==
  /\ pc = "format"
  /\ events' = Append(events, Event(attempt, "format", <<>>))
  /\ IF formatThrows(adapter, formatFailure)
     THEN Throw(Error("format", attempt, NoError))
     ELSE pc' = "call" /\ UNCHANGED <<thrown, outcome>>
  /\ UNCHANGED <<RunInputs, adapter, attempt, lm_calls, result, lmReturned>>

\* lm.generateText({...}) / lm.streamText({...}) is issued
CallLM ==
  /\ pc = "call"
  /\ lm_calls' = Append(lm_calls,
                        [attempt |-> attempt, adapter |-> adapter,
                         output |-> (adapter = "JSONAdapter"),
                         method |-> IF op = "run" THEN "generateText"
                                    ELSE "streamText"])
  /\ events' = Append(events, Event(attempt, "lm_call", <<>>))
  /\ pc' = "await"
  /\ UNCHANGED <<RunInputs, adapter, attempt, result, lmReturned, thrown,
                 outcome>>

\* the awaited LM call resolves
LMReturns ==
  /\ pc = "await"
  /\ \E r \in LMResults(adapter = "JSONAdapter") :
       /\ result' = r
       /\ lmReturned' = r
       /\ events' = Append(events, Event(attempt, "lm_return", r.text))
  /\ IF Parses(op, adapter)
     THEN pc' = "parse" /\ outcome' = outcome
     ELSE /\ pc' = "done"
          /\ outcome' = [NoOutcome EXCEPT !.kind = "result",
                                          !.proxy = (op = "stream" /\ adapter = "ChatAdapter")]
  /\ UNCHANGED <<RunInputs, adapter, attempt, lm_calls, thrown>>

\* the awaited LM call rejects
LMThrows ==
  /\ pc = "await"
  /\ events' = Append(events, Event(attempt, "lm_error", <<>>))
  /\ Throw(Error("lm", attempt, NoError))
  /\ UNCHANGED <<RunInputs, adapter, attempt, lm_calls, result, lmReturned>>

\* const parsed = this.parse(signature, result.text); return new Proxy(...)
Parse ==
  /\ pc = "parse"
  /\ LET text == TextToParse(result)
         r == ChatAdapter_parse(signature, text, FALSE)
     IN /\ events' = Append(events, Event(attempt, "parse", text))
        /\ IF r.ok
           THEN /\ pc' = "done"
                /\ outcome' = [NoOutcome EXCEPT !.kind = "result",
                                                !.proxy = TRUE,
                                                !.parsed = r.result]
                /\ thrown' = thrown
           ELSE Throw(Error("parse", attempt, r.error))
  /\ UNCHANGED <<RunInputs, adapter, attempt, lm_calls, result, lmReturned>>

\* catch (e) { if (guard) throw e; ... }
CatchRethrow ==
  /\ pc = "catch"
  /\ RethrowGuard(self, use_json_adapter_fallback)
  /\ pc' = "done"
  /\ outcome' = [NoOutcome EXCEPT !.kind = "error", !.error = Raised(thrown)]
  /\ UNCHANGED <<RunInputs, adapter, attempt, lm_calls, result, lmReturned,
                 events, thrown>>

\* catch (e) { ...; return await new JSONAdapter().run(...) } (or .stream)
CatchFallback ==
  /\ pc = "catch"
  /\ ~RethrowGuard(self, use_json_adapter_fallback)
  /\ adapter' = "JSONAdapter"
  /\ attempt' = attempt + 1
  /\ pc' = "format"
  /\ UNCHANGED <<RunInputs, lm_calls, result, lmReturned, events, thrown,
                 outcome>>

RunIdle ==
  /\ op = "run"
  /\ self = "ChatAdapter"
  /\ use_json_adapter_fallback = TRUE
  /\ formatFailure = "none"
  /\ pc = "idle"
  /\ adapter = "ChatAdapter"
  /\ attempt = 1
  /\ lm_calls = <<>>
  /\ result = NoResult
  /\ lmReturned = NoResult
  /\ events = <<>>
  /\ thrown = <<>>
  /\ outcome = NoOutcome

\* adapter.run(lm, lm_kwargs, signature, demos, inputs) or adapter.stream(...)
\* has just been called on a ChatAdapter or a JSONAdapter.
InitRun ==
  /\ MoreIdle
  /\ ParseIdle
  /\ ValueIdle
  /\ FormatIdle
  /\ outputs = <<>>
  /\ signature \in Signatures
  /\ op \in {"run", "stream"}
  /\ self \in {"ChatAdapter", "JSONAdapter"}
  /\ use_json_adapter_fallback \in BOOLEAN
  /\ formatFailure \in FormatFailures
  /\ pc = "format"
  /\ adapter = self
  /\ attempt = 1
  /\ lm_calls = <<>>
  /\ result = NoResult
  /\ lmReturned = NoResult
  /\ events = <<>>
  /\ thrown = <<>>
  /\ outcome = NoOutcome

NextRun ==
  \/ Format
  \/ CallLM
  \/ LMReturns
  \/ LMThrows
  \/ Parse
  \/ CatchRethrow
  \/ CatchFallback

SpecRun == InitRun /\ [][NextRun]_vars

\* ------------------------------------------------------------------------
\* The parser applied to every input
\* ------------------------------------------------------------------------
InitParse ==
  /\ MoreIdle
  /\ parser \in {"ChatAdapter", "JSONAdapter"}
  /\ \/ signature \in Signatures /\ completion \in Completions
     \/ signature \in TypedSignatures /\ completion \in TypedCompletions
  /\ allow_partial_output \in BOOLEAN
  /\ parsePc = "ready"
  /\ parseOut = ParseOk(<<>>)
  /\ RunIdle
  /\ ValueIdle
  /\ FormatIdle
  /\ outputs = <<>>

ParseDone(out) ==
  /\ parseOut' = out
  /\ parsePc' = IF out.ok THEN "returned" ELSE "raised"
  /\ UNCHANGED <<signature, parser, completion, allow_partial_output, runVars,
                 valueVars, outputs, formatVars, moreVars>>

CallChatAdapterParse ==
  /\ parsePc = "ready"
  /\ parser = "ChatAdapter"
  /\ ParseDone(ChatAdapter_parse(signature, completion, allow_partial_output))

CallJSONAdapterParse ==
  /\ parsePc = "ready"
  /\ parser = "JSONAdapter"
  /\ ParseDone(JSONAdapter_parse(signature, completion, allow_partial_output))

NextParse == CallChatAdapterParse \/ CallJSONAdapterParse

SpecParse == InitParse /\ [][NextParse]_vars


\* ------------------------------------------------------------------------
\* parseValue applied to every input
\* ------------------------------------------------------------------------
\* Longest text (in tokens) parseValue is applied to.
MaxValueLen == 2

Schemas == {"string", "number", "boolean", "object", "array"}

ValueTokens == {SP, LF, "x", Digit, "true", "false", "TRUE", "False",
                "Infinity", "{k:7}", "[7]"}

\* Section texts, and the values of a parsed JSON document.
Values ==
  {Str(t) : t \in SeqsUpTo(ValueTokens, MaxValueLen)}
    \cup {Num(7), Bool(TRUE), Bool(FALSE), Json("{k:7}"), Json("[7]"), Obj}

InitValue ==
  /\ MoreIdle
  /\ pvSchema \in Schemas
  /\ pvValue \in Values
  /\ pvPc = "ready"
  /\ pvOut = Threw
  /\ signature = SigAnswer
  /\ ParseIdle
  /\ RunIdle
  /\ FormatIdle
  /\ outputs = <<>>

CallParseValue ==
  /\ pvPc = "ready"
  /\ pvOut' = parseValue(pvSchema, pvValue)
  /\ pvPc' = IF pvOut'.ok THEN "returned" ELSE "threw"
  /\ UNCHANGED <<pvSchema, pvValue, signature, parseVars, runVars, outputs,
                 formatVars, moreVars>>

NextValue == CallParseValue

SpecValue == InitValue /\ [][NextValue]_vars


\* ------------------------------------------------------------------------
\* The assistant message of output values, formatted and parsed back
\* ------------------------------------------------------------------------
\* Longest text value (in characters) that is formatted.
MaxTextLen == 2

\* The values a field of the given type can hold.
FieldValues(schema) ==
  CASE schema = "string" ->
         {Str(t) : t \in SeqsUpTo({"x", SP, LF, Digit}, MaxTextLen)}
    [] schema = "number" -> {Num(7), Num(77)}
    [] schema = "boolean" -> {Bool(TRUE), Bool(FALSE)}

\* Every assignment of a value of its type to each output field.
OutputValues(sig) ==
  {o \in [Range(sig.output) -> UNION {FieldValues(sig.types[k]) :
                                        k \in Range(sig.output)}] :
     \A k \in Range(sig.output) : o[k] \in FieldValues(sig.types[k])}

InitRoundTrip ==
  /\ MoreIdle
  /\ signature \in {SigAnswer, SigTwo, SigFlag}
  /\ outputs \in OutputValues(signature)
  /\ parser = "ChatAdapter"
  /\ completion = <<>>
  /\ allow_partial_output = FALSE
  /\ parsePc = "format"
  /\ parseOut = ParseOk(<<>>)
  /\ RunIdle
  /\ ValueIdle
  /\ FormatIdle

\* content = adapter.format_assistant_message_content(signature, outputs)
FormatAssistantMessage ==
  /\ parsePc = "format"
  /\ completion' =
       ChatAdapter_format_assistant_message_content(signature, outputs, Undefined)
  /\ parsePc' = "formatted"
  /\ UNCHANGED <<signature, parser, allow_partial_output, parseOut, runVars,
                 valueVars, outputs, formatVars, moreVars>>

\* adapter.parse(signature, content)
ParseFormatted ==
  /\ parsePc = "formatted"
  /\ ParseDone(ChatAdapter_parse(signature, completion, allow_partial_output))

NextRoundTrip == FormatAssistantMessage \/ ParseFormatted

SpecRoundTrip == InitRoundTrip /\ [][NextRoundTrip]_vars


\* ------------------------------------------------------------------------
\* Adapter.format applied to demos, histories and inputs
\* ------------------------------------------------------------------------
\* Most demos in a call, and most records in a history.
MaxDemos == 2
MaxHistory == 2

\* A demo gives each of q1, q2, a1 a text, null, or nothing.
Demos ==
  UNION {[S -> {Str(<<"x">>), Null}] : S \in SUBSET {"q1", "q2", "a1"}}

\* A record of the history gives q1 and a1 a text or nothing.
HistoryRecords == UNION {[S -> {Str(<<"x">>)}] : S \in SUBSET {"q1", "a1"}}

\* The inputs of a call on FSigHistory: the history is an array of records,
\* null, or not given.
HistoryInputs ==
  {[history |-> Array(h), q1 |-> Str(<<"x">>)] :
     h \in SeqsUpTo(HistoryRecords, MaxHistory)}
    \cup {[history |-> Null, q1 |-> Str(<<"x">>)], [q1 |-> Str(<<"x">>)]}

InitFormat ==
  /\ MoreIdle
  /\ fAdapter \in {"ChatAdapter", "JSONAdapter"}
  /\ \/ /\ fSig = FSigPlain
        /\ demos \in SeqsUpTo(Demos, MaxDemos)
        /\ inputs = [q1 |-> Str(<<"x">>), q2 |-> Str(<<"x">>)]
     \/ /\ fSig = FSigHistory
        /\ demos \in {<<>>, <<[q1 |-> Str(<<"x">>), a1 |-> Str(<<"x">>)]>>}
        /\ inputs \in HistoryInputs
  /\ inputsCopy = inputs
  /\ conversationHistory = <<>>
  /\ messages = <<>>
  /\ fpc = "history"
  /\ signature = SigAnswer
  /\ ParseIdle
  /\ RunIdle
  /\ ValueIdle
  /\ outputs = <<>>

FormatFrame == <<signature, parseVars, runVars, valueVars, outputs, fAdapter,
                 fSig, demos, moreVars>>

\* if (historyFieldName) conversationHistory = format_conversation_history(
\*   signatureWithoutHistory, historyFieldName, inputsCopy, context), which
\* ends with `delete inputs[historyFieldName]` on the object it was given
FormatHistory ==
  /\ fpc = "history"
  /\ LET historyFieldName == HistoryFieldName(fSig) IN
     IF historyFieldName # NoHistory
     THEN /\ conversationHistory' =
               format_conversation_history(
                 fAdapter, SignatureDelete(fSig, historyFieldName),
                 historyFieldName, inputsCopy)
          /\ inputsCopy' = DeleteHistory(inputsCopy, historyFieldName)
          /\ inputs' = IF ObjectSpread("inputs") = "inputs"
                       THEN DeleteHistory(inputs, historyFieldName)
                       ELSE inputs
     ELSE UNCHANGED <<conversationHistory, inputsCopy, inputs>>
  /\ fpc' = "system"
  /\ UNCHANGED <<FormatFrame, messages>>

\* messages.push({ role: "system", content: systemMessage })
PushSystem ==
  /\ fpc = "system"
  /\ messages' = Append(messages, Message("system", <<"system">>, "system", 0))
  /\ fpc' = "demos"
  /\ UNCHANGED <<FormatFrame, inputs, inputsCopy, conversationHistory>>

\* messages.push(...this.format_demos(signature, demos, context))
PushDemos ==
  /\ fpc = "demos"
  /\ messages' = messages \o format_demos(fAdapter, fSig, demos)
  /\ fpc' = "main"
  /\ UNCHANGED <<FormatFrame, inputs, inputsCopy, conversationHistory>>

\* messages.push(...conversationHistory); messages.push({ role: "user",
\* content }); without custom types split_message_content_for_custom_types
\* leaves the messages as they are.
PushMain ==
  /\ fpc = "main"
  /\ LET historyFieldName == HistoryFieldName(fSig)
         sig == IF historyFieldName # NoHistory
                THEN SignatureDelete(fSig, historyFieldName)
                ELSE fSig
         content == format_user_message_content(fAdapter, sig, inputsCopy,
                                                <<>>, TRUE)
     IN messages' = messages \o conversationHistory
                      \o <<Message("user", content, "main", 0)>>
  /\ fpc' = "done"
  /\ UNCHANGED <<FormatFrame, inputs, inputsCopy, conversationHistory>>

NextFormat == FormatHistory \/ PushSystem \/ PushDemos \/ PushMain

SpecFormat == InitFormat /\ [][NextFormat]_vars


\* ------------------------------------------------------------------------
\* Adapter.format applied to inputs with custom types, call after call
\* ------------------------------------------------------------------------
\* What a text field or a custom-type field can hold: a text, or a text that
\* is the marker of an id (one that was returned before, or none).
CustomValues(ids) ==
  {<<Text("x")>>} \cup {<<Marker(id)>> : id \in ids \cup {0}}

CustomFields(ids) ==
  [type : {"string"} \cup CustomTypes, value : CustomValues(ids)]

InitCustom ==
  /\ CustomIdle
  /\ StreamIdle
  /\ StateIdle
  /\ TraceIdle
  /\ LateIdle
  /\ ParseIdle
  /\ RunIdle
  /\ ValueIdle
  /\ FormatIdle
  /\ outputs = <<>>
  /\ signature = SigAnswer

CustomFrame == <<signature, parseVars, runVars, valueVars, outputs,
                 formatVars, streamVars, stateVars, traceVars, lateVars>>

\* adapter.format(signature, demos, inputs) is called: const context = {}
FormatBegin ==
  /\ cpc \in {"idle", "returned", "failed"}
  /\ calls < MaxCalls
  /\ \E n \in 1..MaxFields : \E fields \in [1..n -> CustomFields(uuids)] :
       cFields' = fields
  /\ maps' = NewContext(maps)
  /\ context' = Len(maps')
  /\ cNext' = 1
  /\ cContent' = <<>>
  /\ cMessages' = <<TextMessage("system", <<Text("x")>>)>>
  /\ emitted' = <<>>
  /\ cpc' = "fields"
  /\ calls' = calls + 1
  /\ UNCHANGED <<CustomFrame, uuids>>

\* One iteration of the loop of format_user_message_content:
\* messages.push(`[[ ## ${k} ## ]]\n${format_field_value(type, value, context)}`)
FormatField ==
  /\ cpc = "fields"
  /\ cNext <= Len(cFields)
  /\ \E id \in IF is_custom_type(cFields[cNext].type) THEN Uuids \ uuids
              ELSE {0} :
       LET field == cFields[cNext]
           r == format_field_value_in(field.type, field.value, maps[context], id)
           custom == is_custom_type(field.type)
       IN /\ maps' = [maps EXCEPT ![context] = r.context]
          /\ cContent' = cContent
               \o (IF cNext = 1 THEN <<>> ELSE <<Text(LF), Text(LF)>>)
               \o <<FieldHeader(cNext), Text(LF)>> \o r.string_value
          /\ uuids' = IF custom THEN uuids \cup {id} ELSE uuids
          /\ emitted' = IF custom THEN emitted \o <<r.string_value[1].id>>
                        ELSE emitted
  /\ cNext' = cNext + 1
  /\ UNCHANGED <<CustomFrame, context, cFields, cMessages, cpc, calls>>

\* The text of the current turn: the fields and the output requirements.
UserContent ==
  cContent \o <<Text(LF), Text(LF)>>
    \o [i \in {1} |-> Text(user_message_output_requirements("ChatAdapter", SigAnswer)[i])]

\* messages.push({ role: "user", content });
\* messages = split_message_content_for_custom_types(messages, context);
\* return messages
FormatSplit ==
  /\ cpc = "fields"
  /\ cNext > Len(cFields)
  /\ LET r == split_message_content_for_custom_types(
                Append(cMessages, TextMessage("user", UserContent)),
                maps[context])
     IN /\ cMessages' = IF r.ok THEN r.messages ELSE <<>>
        /\ cpc' = IF r.ok THEN "returned" ELSE "failed"
  /\ context' = 0
  /\ UNCHANGED <<CustomFrame, maps, uuids, cFields, cNext, cContent, emitted,
                 calls>>

NextCustom == FormatBegin \/ FormatField \/ FormatSplit

SpecCustom == InitCustom /\ [][NextCustom]_vars

\* ------------------------------------------------------------------------
\* The partial-output stream, delta by delta
\* ------------------------------------------------------------------------
StreamDeltas ==
  {<<Header("a1")>>, <<LF, "x">>, <<Header("a2"), LF>>, <<"7">>}

\* adapter.stream(...) has returned: the ReadableStream is constructed, its
\* start() has begun the for-await over the generator, and the generator
\* waits for the first delta.
InitStream ==
  /\ sSelf \in {"ChatAdapter", "JSONAdapter"}
  /\ signature \in {SigTwo, SigScalars}
  /\ \E n \in 1..MaxDeltas : deltas \in [1..n -> StreamDeltas]
  /\ consumer \in {"reader", "iterator"}
  /\ pulled = 0
  /\ accumulatedText = <<>>
  /\ parseCalls = <<>>
  /\ yielded = <<>>
  /\ requests = <<"pump">>
  /\ generator = "awaiting"
  /\ queue = <<>>
  /\ asked = FALSE
  /\ received = <<>>
  /\ cancelled = FALSE
  /\ released = FALSE
  /\ CustomIdle
  /\ StateIdle
  /\ TraceIdle
  /\ LateIdle
  /\ ParseIdle
  /\ RunIdle
  /\ ValueIdle
  /\ FormatIdle
  /\ outputs = <<>>

StreamFrame == <<signature, parseVars, runVars, valueVars, outputs,
                 formatVars, customVars, stateVars, traceVars, lateVars,
                 sSelf, deltas, consumer>>

\* result.textStream delivers the next delta: the body of the for-await in
\* the generator runs, and the yielded value settles the oldest request.
\* start() enqueues the value it gets and asks for the next one;
\* controller.enqueue throws on a cancelled stream, which ends the loop of
\* start() with a return() of the generator.
DeltaArrives ==
  /\ generator = "awaiting"
  /\ pulled < Len(deltas)
  /\ LET text == Accumulate(accumulatedText, deltas[pulled + 1])
         out == self_parse(sSelf, signature, text, TRUE)
         toPump == requests[1] = "pump"
         enqueueThrows == consumer = "reader" /\ cancelled
         queued == Tail(requests)
                     \o (IF ~toPump THEN <<>>
                         ELSE IF enqueueThrows THEN <<"return">>
                         ELSE <<"pump">>)
         after == IF out.ok THEN Resume(queued)
                  ELSE [generator |-> "completed", requests |-> <<>>,
                        released |-> TRUE]
     IN /\ accumulatedText' = text
        /\ pulled' = pulled + 1
        /\ parseCalls' = Append(parseCalls,
                                [text |-> text, allow_partial_output |-> TRUE])
        /\ yielded' = IF out.ok THEN Append(yielded, out.result) ELSE yielded
        /\ queue' = IF out.ok /\ toPump /\ ~enqueueThrows
                    THEN Append(queue, out.result) ELSE queue
        /\ received' = IF out.ok /\ ~toPump
                       THEN Append(received, out.result) ELSE received
        /\ asked' = IF toPump THEN asked ELSE FALSE
        /\ generator' = after.generator
        /\ requests' = after.requests
        /\ released' = after.released
  /\ UNCHANGED <<StreamFrame, cancelled>>

\* result.textStream is done: the for-await ends, the generator completes
\* and every pending request settles as done.
TextStreamDone ==
  /\ generator = "awaiting"
  /\ pulled = Len(deltas)
  /\ generator' = "completed"
  /\ requests' = <<>>
  /\ asked' = FALSE
  /\ released' = TRUE
  /\ UNCHANGED <<StreamFrame, pulled, accumulatedText, parseCalls, yielded,
                 queue, received, cancelled>>

\* reader.read() on the ReadableStream
ConsumerRead ==
  /\ consumer = "reader"
  /\ ~cancelled
  /\ queue # <<>>
  /\ received' = Append(received, Head(queue))
  /\ queue' = Tail(queue)
  /\ UNCHANGED <<StreamFrame, pulled, accumulatedText, parseCalls, yielded,
                 requests, generator, asked, cancelled, released>>

\* reader.cancel(): the stream is closed and its queue dropped; the
\* underlying source has no cancel() to tell the generator.
ConsumerCancel ==
  /\ consumer = "reader"
  /\ ~cancelled
  /\ cancelled' = TRUE
  /\ queue' = <<>>
  /\ UNCHANGED <<StreamFrame, pulled, accumulatedText, parseCalls, yielded,
                 requests, generator, asked, received, released>>

\* for await (const partial of result.partialOutputStream): the iterator is
\* the generator itself, the consumer's next() queues behind start()'s.
ConsumerNext ==
  /\ consumer = "iterator"
  /\ ~cancelled
  /\ ~asked
  /\ generator = "awaiting"
  /\ asked' = TRUE
  /\ requests' = Append(requests, "consumer")
  /\ UNCHANGED <<StreamFrame, pulled, accumulatedText, parseCalls, yielded,
                 generator, queue, received, cancelled, released>>

\* The consumer leaves its for-await loop: generator.return() queues behind
\* the pending requests.
ConsumerBreak ==
  /\ consumer = "iterator"
  /\ ~cancelled
  /\ ~asked
  /\ received # <<>>
  /\ cancelled' = TRUE
  /\ IF generator = "awaiting"
     THEN requests' = Append(requests, "return")
     ELSE UNCHANGED requests
  /\ UNCHANGED <<StreamFrame, pulled, accumulatedText, parseCalls, yielded,
                 generator, queue, asked, received, released>>

NextStream ==
  \/ DeltaArrives
  \/ TextStreamDone
  \/ ConsumerRead
  \/ ConsumerCancel
  \/ ConsumerNext
  \/ ConsumerBreak

SpecStream == InitStream /\ [][NextStream]_vars

\* ------------------------------------------------------------------------
\* Signatures and predictors: delete, withInstructions, dump and load
\* ------------------------------------------------------------------------
\* The field names of the signatures: plain; `b` on both sides (the delete
\* test); an output field named like a property of Object.prototype; two
\* input fields with one prefix.
Shapes ==
  {[input |-> <<"q1">>, output |-> <<"a1">>],
   [input |-> <<"q1", "b">>, output |-> <<"a1", "b">>],
   [input |-> <<"q1">>, output |-> <<"constructor">>],
   [input |-> <<"q1", "q_1">>, output |-> <<"a1">>]}

\* new Signature({...}) on zod objects of that shape; the first input field
\* carries the description and other metadata.
Build(shape, id, description, instructions, tools) ==
  LET fields(names, base) ==
        [n \in Range(names) |->
           LET i == CHOOSE j \in 1..Len(names) : names[j] = n
           IN ZodField(base + i,
                       IF base = id /\ i = 1 THEN description ELSE "",
                       base = id /\ i = 1)]
  IN NewSignature(instructions,
                  ZodObject(id, shape.input, fields(shape.input, id)),
                  ZodObject(id + 5, shape.output, fields(shape.output, id + 5)),
                  tools)

PredictorNames == <<"predict1", "predict2">>

\* Module.dump_state()
Module_dump_state(heap, refs) ==
  [name \in Range(PredictorNames) |-> dump_state(heap[refs[name]])]

\* States handed to load_state: what dump_state gave for some signature, or
\* a persisted state with one entry.
PersistedStates ==
  {dump_state(sigs[i]) : i \in 1..Len(sigs)}
    \cup {[instructions |-> Instructions("i3"),
           fields |-> <<[prefix |-> p, description |-> "d3"]>>] :
            p \in {"Unknown:", "constructor", "Q 1:"}}

InitState ==
  /\ \E shape \in Shapes, d1 \in {"", "d1"}, d2 \in {"", "d2"},
        i1 \in {Instructions("i1"), Instructions("")} :
       sigs = <<Build(shape, 10, d1, i1, "tools"),
                Build(shape, 20, "", Instructions(""), "undefined"),
                Build(shape, 30, d2, Instructions("i2"), "undefined"),
                Build(shape, 40, "", Instructions(""), "undefined")>>
  /\ predictors = [m1 |-> [predict1 |-> 1, predict2 |-> 2],
                   m2 |-> [predict1 |-> 3, predict2 |-> 4]]
  /\ nextId = 50
  /\ ops = 0
  /\ sop = NoCall
  /\ CustomIdle
  /\ StreamIdle
  /\ TraceIdle
  /\ LateIdle
  /\ ParseIdle
  /\ RunIdle
  /\ ValueIdle
  /\ FormatIdle
  /\ outputs = <<>>
  /\ signature = SigAnswer

StateFrame == <<signature, parseVars, runVars, valueVars, outputs, formatVars,
                customVars, streamVars, traceVars, lateVars>>

\* sigs[i].delete(inputOrOutput, name)
CallDelete ==
  /\ ops < MaxOps
  /\ \E i \in 1..Len(sigs), inputOrOutput \in {"input", "output"} :
     \E name \in Range(AllNames(sigs[i])) :
       /\ sigs' = new_Signature(sigs, i,
                    Signature_delete(sigs[i], inputOrOutput, name, nextId))
       /\ sop' = [NoCall EXCEPT !.op = "delete", !.receiver = i,
                                !.before = sigs[i],
                                !.returned = Returned_(sigs, sigs', i)]
  /\ nextId' = nextId + 2
  /\ ops' = ops + 1
  /\ UNCHANGED <<StateFrame, predictors>>

\* sigs[i].withInstructions(instructions)
CallWithInstructions ==
  /\ ops < MaxOps
  /\ \E i \in 1..Len(sigs),
        instructions \in {Instructions("i3"), Instructions("")} :
       /\ sigs' = new_Signature(sigs, i, withInstructions(sigs[i], instructions))
       /\ sop' = [NoCall EXCEPT !.op = "withInstructions", !.receiver = i,
                                !.before = sigs[i],
                                !.returned = Returned_(sigs, sigs', i)]
  /\ ops' = ops + 1
  /\ UNCHANGED <<StateFrame, predictors, nextId>>

\* sigs[i].load_state(state)
CallLoadState ==
  /\ ops < MaxOps
  /\ \E i \in 1..Len(sigs), state \in PersistedStates :
       LET r == load_state(sigs[i], state, nextId)
       IN /\ sigs' = IF r.ok THEN new_Signature(sigs, i, r.signature) ELSE sigs
          /\ sop' = [NoCall EXCEPT !.op = "load_state", !.receiver = i,
                                   !.before = sigs[i], !.state = state,
                                   !.threw = ~r.ok,
                                   !.returned = IF r.ok
                                                THEN Returned_(sigs, sigs', i)
                                                ELSE 0]
          /\ nextId' = nextId + Len(state.fields) + 2
  /\ ops' = ops + 1
  /\ UNCHANGED <<StateFrame, predictors>>

\* module.load_state(other.dump_state()) for the two modules
CallModuleLoadState ==
  /\ ops < MaxOps
  /\ \E m \in {"m1", "m2"} :
       LET other == IF m = "m1" THEN "m2" ELSE "m1"
           states == Module_dump_state(sigs, predictors[other])
           r == Module_load_state(sigs, predictors[m], states, PredictorNames,
                                  1, nextId)
       IN /\ sigs' = r.heap
          /\ predictors' = [predictors EXCEPT ![m] = r.refs]
          /\ sop' = [NoCall EXCEPT !.op = "Module.load_state", !.module = m,
                                   !.states = states, !.threw = ~r.ok]
  /\ nextId' = nextId + 20
  /\ ops' = ops + 1
  /\ UNCHANGED StateFrame

NextState ==
  \/ CallDelete
  \/ CallWithInstructions
  \/ CallLoadState
  \/ CallModuleLoadState

SpecState == InitState /\ [][NextState]_vars

\* ------------------------------------------------------------------------
\* Module.run on a freshly built module tree
\* ------------------------------------------------------------------------
\* Most modules of a tree, and most runs of sub-modules in one forward.
MaxModules == 4
MaxRuns == 2

\* The forward of module m runs modules with a greater number (a Predict
\* runs none), each awaited before the next.
Forwards ==
  {f \in [1..MaxModules -> SeqsUpTo(1..MaxModules, MaxRuns)] :
     \A m \in 1..MaxModules : \A i \in 1..Len(f[m]) : f[m][i] > m}

\* The entry a run pushes: { module, example, prediction } of invocation k.
TraceEntry(m, k) == [module |-> m, invocation |-> k]

Frame(m, k) ==
  [module |-> m, invocation |-> k, next |-> 1, currentRunTrace |-> <<>>]

\* module.run(input) has been called on module 1 of a tree just built.
InitTrace ==
  /\ forward \in Forwards
  /\ traces = [m \in 1..MaxModules |-> <<>>]
  /\ stack = <<Frame(1, 1)>>
  /\ invocations = 1
  /\ completed = <<>>
  /\ CustomIdle
  /\ StreamIdle
  /\ StateIdle
  /\ LateIdle
  /\ ParseIdle
  /\ RunIdle
  /\ ValueIdle
  /\ FormatIdle
  /\ outputs = <<>>
  /\ signature = SigAnswer

TraceFrame == <<signature, parseVars, runVars, valueVars, outputs, formatVars,
                customVars, streamVars, stateVars, lateVars, forward>>

\* forward reaches `await child.run(...)`:
\* traceStorage.run(currentRunTrace, ...) of the child begins
RunChild ==
  /\ stack # <<>>
  /\ LET top == stack[Len(stack)]
     IN /\ top.next <= Len(forward[top.module])
        /\ stack' = Append(stack,
                      Frame(forward[top.module][top.next], invocations + 1))
  /\ invocations' = invocations + 1
  /\ UNCHANGED <<TraceFrame, traces, completed>>

\* forward has returned: this.traces.push(...currentRunTrace);
\* this.traces.push({ module, example, prediction });
\* parentTrace.push(...this.traces) when a run encloses this one
RunReturns ==
  /\ stack # <<>>
  /\ LET top == stack[Len(stack)]
         entry == TraceEntry(top.module, top.invocation)
         mine == traces[top.module] \o top.currentRunTrace \o <<entry>>
         rest == SubSeq(stack, 1, Len(stack) - 1)
     IN /\ top.next > Len(forward[top.module])
        /\ traces' = [traces EXCEPT ![top.module] = mine]
        /\ completed' = Append(completed, entry)
        /\ stack' =
             IF rest = <<>> THEN rest
             ELSE [rest EXCEPT ![Len(rest)] =
                     [@ EXCEPT !.next = @ + 1,
                               !.currentRunTrace = @ \o mine]]
  /\ UNCHANGED <<TraceFrame, invocations>>

NextTrace == RunChild \/ RunReturns

SpecTrace == InitTrace /\ [][NextTrace]_vars

\* ------------------------------------------------------------------------
\* Two module.run in flight at once
\* ------------------------------------------------------------------------
Runs == {1, 2}

\* Most runs of sub-modules in one forward, for the trees run concurrently.
MaxAwaits == 1

ConcurrentForwards == {f \in Forwards : \A m \in 1..MaxModules : Len(f[m]) <= MaxAwaits}

\* Promise.all([a.run(x), b.run(y)]) has been called outside of any run, on
\* modules of trees just built; a and b may be one module and their trees
\* may share sub-modules. Each run(...) has executed up to its first await.
InitConcurrent ==
  /\ forward \in ConcurrentForwards
  /\ traces = [m \in 1..MaxModules |-> <<>>]
  /\ roots \in [Runs -> 1..MaxModules]
  /\ runs = [r \in Runs |-> <<Frame(roots[r], r)>>]
  /\ tree = [r \in Runs |-> {r}]
  /\ collected = [r \in Runs |-> <<>>]
  /\ invocations = 2
  /\ completed = <<>>
  /\ stack = <<>>
  /\ TypeIdle
  /\ BlobIdle
  /\ CustomIdle
  /\ StreamIdle
  /\ StateIdle
  /\ ParseIdle
  /\ RunIdle
  /\ ValueIdle
  /\ FormatIdle
  /\ outputs = <<>>
  /\ signature = SigAnswer

ConcurrentFrame == <<signature, parseVars, runVars, valueVars, outputs,
                     formatVars, customVars, streamVars, stateVars, typeVars,
                     blobVars, forward, stack, roots>>

\* the forward of run r reaches `await child.run(...)`:
\* traceStorage.run(currentRunTrace, ...) of the child begins in r's
\* asynchronous context
ConcurrentRunChild(r) ==
  /\ runs[r] # <<>>
  /\ LET top == runs[r][Len(runs[r])]
     IN /\ top.next <= Len(forward[top.module])
        /\ runs' = [runs EXCEPT ![r] =
                      Append(@, Frame(forward[top.module][top.next],
                                      invocations + 1))]
  /\ tree' = [tree EXCEPT ![r] = @ \cup {invocations + 1}]
  /\ invocations' = invocations + 1
  /\ UNCHANGED <<ConcurrentFrame, traces, completed, collected>>

\* a forward of run r has returned: this.traces.push(...currentRunTrace);
\* this.traces.push({ module, example, prediction }); traceStorage.getStore()
\* is the currentRunTrace of the enclosing run of r, undefined at r's root
ConcurrentRunReturns(r) ==
  /\ runs[r] # <<>>
  /\ LET top == runs[r][Len(runs[r])]
         entry == TraceEntry(top.module, top.invocation)
         mine == traces[top.module] \o top.currentRunTrace \o <<entry>>
         rest == SubSeq(runs[r], 1, Len(runs[r]) - 1)
     IN /\ top.next > Len(forward[top.module])
        /\ traces' = [traces EXCEPT ![top.module] = mine]
        /\ completed' = Append(completed, entry)
        /\ runs' = [runs EXCEPT ![r] =
             IF rest = <<>> THEN rest
             ELSE [rest EXCEPT ![Len(rest)] =
                     [@ EXCEPT !.next = @ + 1,
                               !.currentRunTrace = @ \o mine]]]
        /\ collected' =
             IF rest = <<>>
             THEN [collected EXCEPT ![r] = top.currentRunTrace \o <<entry>>]
             ELSE collected
  /\ UNCHANGED <<ConcurrentFrame, invocations, tree>>

NextConcurrent ==
  \/ \E r \in Runs : ConcurrentRunChild(r)
  \/ \E r \in Runs : ConcurrentRunReturns(r)

SpecConcurrent == InitConcurrent /\ [][NextConcurrent]_vars

\* ------------------------------------------------------------------------
\* get_annotation_name / extract_custom_type_from_annotation on one schema
\* ------------------------------------------------------------------------
FieldTypes ==
  {"string", "array", "set", "optional", "lazy", "object", "union", "map"}

\* The schema objects a def of the type can refer to, among the objects
\* `later`.
ChildrenOf(type, later) ==
  CASE type = "string" -> {<<>>}
    [] type \in {"array", "set", "optional", "lazy"} -> {<<c>> : c \in later}
    [] type = "map" -> later \X later
    [] OTHER -> SeqsUpTo(later, 2) \ {<<>>}

\* Schema objects are immutable and built from existing ones: a def refers
\* to objects with a greater heap index, except that the getter of a lazy
\* schema may return any object, itself and its ancestors included.
SchemasAt(i) ==
  UNION {{ZodType(type, name, children) :
            name \in {"", "Image"},
            children \in ChildrenOf(type, IF type = "lazy" THEN 1..MaxNodes
                                          ELSE (i + 1)..MaxNodes)} :
         type \in FieldTypes}

RECURSIVE HeapsFrom(_)
HeapsFrom(i) ==
  IF i > MaxNodes THEN {<<>>}
  ELSE {<<first>> \o rest : first \in SchemasAt(i), rest \in HeapsFrom(i + 1)}

SchemaHeaps == HeapsFrom(1)

InitTypes ==
  /\ schemas \in SchemaHeaps
  /\ typeCall \in {"get_annotation_name",
                    "extract_custom_type_from_annotation"}
  /\ frames = IF typeCall = "get_annotation_name" THEN <<NameFrame(1)>>
              ELSE <<>>
  /\ named = NoName
  /\ extracted = NoExtract
  /\ ConcIdle
  /\ BlobIdle
  /\ CustomIdle
  /\ StreamIdle
  /\ StateIdle
  /\ TraceIdle
  /\ ParseIdle
  /\ RunIdle
  /\ ValueIdle
  /\ FormatIdle
  /\ outputs = <<>>
  /\ signature = SigAnswer

TypesFrame == <<signature, parseVars, runVars, valueVars, outputs, formatVars,
                customVars, streamVars, stateVars, traceVars, concVars,
                blobVars, schemas, typeCall>>

\* the innermost activation calls get_annotation_name on the next nested
\* schema (for a lazy schema: on def.getter())
NameRecurses ==
  /\ frames # <<>>
  /\ Len(frames) < MaxDepth
  /\ LET top == frames[Len(frames)]
         node == schemas[top.schema]
     IN /\ node.name = ""
        /\ top.next <= Len(node.children)
        /\ frames' =
             Append([frames EXCEPT ![Len(frames)].getter =
                       IF node.type = "lazy" THEN @ + 1 ELSE @],
                    NameFrame(node.children[top.next]))
  /\ UNCHANGED <<TypesFrame, named, extracted>>

\* the nested call is one too many for the engine: RangeError
NameOverflows ==
  /\ frames # <<>>
  /\ Len(frames) = MaxDepth
  /\ LET top == frames[Len(frames)]
         node == schemas[top.schema]
     IN /\ node.name = ""
        /\ top.next <= Len(node.children)
  /\ frames' = <<>>
  /\ named' = [NoName EXCEPT !.kind = "threw"]
  /\ UNCHANGED <<TypesFrame, extracted>>

\* the innermost activation returns: meta.name, or the template of its case
NameReturns ==
  /\ frames # <<>>
  /\ LET top == frames[Len(frames)]
         node == schemas[top.schema]
         name == IF node.name # "" THEN <<node.name>>
                 ELSE AnnotationName(node.type, top.parts)
         rest == SubSeq(frames, 1, Len(frames) - 1)
     IN /\ node.name # "" \/ top.next > Len(node.children)
        /\ frames' =
             IF rest = <<>> THEN rest
             ELSE [rest EXCEPT ![Len(rest)] =
                     [@ EXCEPT !.next = @ + 1,
                               !.parts = Append(@, name)]]
        /\ named' =
             IF rest = <<>>
             THEN [kind |-> "returned", name |-> name, getter |-> top.getter]
             ELSE named
  /\ UNCHANGED <<TypesFrame, extracted>>

\* extract_custom_type_from_annotation(schema) runs
CallExtract ==
  /\ typeCall = "extract_custom_type_from_annotation"
  /\ extracted = NoExtract
  /\ LET r == extract_custom_type_from_annotation(schemas, 1, 1)
     IN extracted' = [kind |-> IF r.ok THEN "returned" ELSE "threw",
                      result |-> r.result]
  /\ UNCHANGED <<TypesFrame, frames, named>>

NextTypes ==
  \/ NameRecurses
  \/ NameOverflows
  \/ NameReturns
  \/ CallExtract

SpecTypes == InitTypes /\ [][NextTypes]_vars

\* ------------------------------------------------------------------------
\* _format_input_list_field_value on a list of text blobs
\* ------------------------------------------------------------------------
BlobChars == {"a", LF, LQ}

Blobs == SeqsUpTo(BlobChars, MaxBlobLen)

InitBlob ==
  /\ blobs \in SeqsUpTo(Blobs, MaxBlobs)
  /\ string_value = NotFormatted
  /\ ConcIdle
  /\ TypeIdle
  /\ CustomIdle
  /\ StreamIdle
  /\ StateIdle
  /\ TraceIdle
  /\ ParseIdle
  /\ RunIdle
  /\ ValueIdle
  /\ FormatIdle
  /\ outputs = <<>>
  /\ signature = SigAnswer

\* format_field_value(field, value) with a text field and an array value:
\* string_value = _format_input_list_field_value(value)
CallFormatList ==
  /\ string_value = NotFormatted
  /\ string_value' = _format_input_list_field_value(blobs)
  /\ UNCHANGED <<signature, parseVars, runVars, valueVars, outputs, formatVars,
                 customVars, streamVars, stateVars, traceVars, concVars,
                 typeVars, blobs>>

NextBlob == CallFormatList

SpecBlob == InitBlob /\ [][NextBlob]_vars

\* ------------------------------------------------------------------------
\* Properties of the parsers (SpecParse)
\* ------------------------------------------------------------------------
ParseFinished == parsePc \in {"returned", "raised"}

OnlyA1Completion == <<H1, LF, "x", LF, LF, HC>>

\* C8: with allow_partial_output = false, ChatAdapter.parse and
\* JSONAdapter.parse either return a map whose key set is exactly the set of
\* output field names or raise AdapterParseError; a completion holding only
\* a1 for the outputs {a1, a2} raises the field-set mismatch.
C8_StrictExactKeysOrError ==
  (ParseFinished /\ ~allow_partial_output) =>
    /\ \/ /\ parsePc = "returned"
          /\ parseOut.ok
          /\ DOMAIN parseOut.result = output_fields(signature)
       \/ /\ parsePc = "raised"
          /\ ~parseOut.ok
          /\ parseOut.error.name = "AdapterParseError"
    /\ (signature = SigTwo /\ completion = OnlyA1Completion) =>
          /\ parsePc = "raised"
          /\ parseOut.error.message = "Expected output fields"
          /\ parseOut.error.parsed_result.present
          /\ DOMAIN parseOut.error.parsed_result.map = {"a1"}

C8_Witness ==
  /\ parsePc = "raised"
  /\ parser = "ChatAdapter"
  /\ ~allow_partial_output
  /\ signature = SigTwo
  /\ completion = OnlyA1Completion
  /\ parseOut.error.message = "Expected output fields"

\* The names of the headers that open a section of the completion.
SectionNames(text) ==
  {HeaderName(Head(Trim(l))) :
     l \in {m \in Range(SplitLines(text)) : HeaderMatch(Trim(m))}}

\* Index of the first section keyed k.
FirstSection(sectionMap, k) ==
  CHOOSE i \in 1..Len(sectionMap) :
    /\ sectionMap[i].k = k
    /\ \A j \in 1..(i - 1) : sectionMap[j].k # k

\* C9: with allow_partial_output = true, parse never raises; the marker-text
\* parser returns a map whose keys are exactly the output field names that
\* occur as sections, and a field whose coercion fails keeps its raw section
\* text.
C9_PartialNeverRaises ==
  (ParseFinished /\ allow_partial_output) =>
    /\ parsePc = "returned"
    /\ parser = "ChatAdapter" =>
         LET sectionMap == SectionMap(completion) IN
         /\ DOMAIN parseOut.result =
              SectionNames(completion) \cap output_fields(signature)
         /\ \A k \in DOMAIN parseOut.result :
              LET raw == sectionMap[FirstSection(sectionMap, k)].v
                  r == parseValue(signature.types[k], Str(raw))
              IN parseOut.result[k] = IF r.ok THEN r.value ELSE Str(raw)

\* Lines of the completion that are header lines, in order.
RECURSIVE HeaderLinesFrom(_, _)
HeaderLinesFrom(lines, i) ==
  IF i > Len(lines) THEN <<>>
  ELSE IF HeaderMatch(Trim(lines[i]))
       THEN <<i>> \o HeaderLinesFrom(lines, i + 1)
       ELSE HeaderLinesFrom(lines, i + 1)

\* The lines after header line number j and before the next header line.
LinesAfterHeader(lines, hs, j) ==
  SubSeq(lines, hs[j] + 1,
         IF j < Len(hs) THEN hs[j + 1] - 1 ELSE Len(lines))

\* What is left of a header line after its header, trimmed.
RestOfHeaderLine(line) == Trim(Tail(Trim(line)))

\* C10 as stated: every header line opens a section keyed by its name, the
\* text before the first header is discarded, and a section's raw text is
\* exactly the lines that follow its header line up to the next header
\* line, joined with newlines and trimmed.
C10_SectionIsFollowingLines ==
  (ParseFinished /\ parser = "ChatAdapter") =>
    LET lines == SplitLines(completion)
        hs == HeaderLinesFrom(lines, 1)
        sectionMap == SectionMap(completion)
    IN
    /\ Len(sectionMap) = Len(hs) + 1
    /\ sectionMap[1].k = NoHeader
    /\ \A j \in 1..Len(hs) :
         /\ sectionMap[j + 1].k = HeaderName(Head(Trim(lines[hs[j]])))
         /\ sectionMap[j + 1].v = Trim(JoinLines(LinesAfterHeader(lines, hs, j)))

\* C10 amended: the raw text of a section starts with what follows the
\* header on the header line itself (trimmed, when not empty), then the
\* lines up to the next header line; all joined with newlines and trimmed.
\* The leading section never reaches the result.
C10_SectionIsRestOfHeaderLineAndFollowingLines ==
  (ParseFinished /\ parser = "ChatAdapter") =>
    LET lines == SplitLines(completion)
        hs == HeaderLinesFrom(lines, 1)
        sectionMap == SectionMap(completion)
    IN
    /\ Len(sectionMap) = Len(hs) + 1
    /\ sectionMap[1].k = NoHeader
    /\ \A j \in 1..Len(hs) :
         LET rest == RestOfHeaderLine(lines[hs[j]]) IN
         /\ sectionMap[j + 1].k = HeaderName(Head(Trim(lines[hs[j]])))
         /\ sectionMap[j + 1].v =
              Trim(JoinLines((IF rest # <<>> THEN <<rest>> ELSE <<>>)
                             \o LinesAfterHeader(lines, hs, j)))
    /\ parseOut.ok => DOMAIN parseOut.result \subseteq SectionNames(completion)
    /\ (hs = <<>> /\ parseOut.ok) => parseOut.result = <<>>

C10_Witness ==
  /\ parsePc = "returned"
  /\ parser = "ChatAdapter"
  /\ signature = SigAnswer
  /\ completion = <<"x", LF, H1, "x">>
  /\ parseOut.result = [a1 |-> Str(<<"x">>)]


\* The entries of a section map whose key did not occur earlier in it.
RECURSIVE FirstOccurrences(_, _)
FirstOccurrences(sectionMap, i) ==
  IF i > Len(sectionMap) THEN <<>>
  ELSE IF \E j \in 1..(i - 1) : sectionMap[j].k = sectionMap[i].k
       THEN FirstOccurrences(sectionMap, i + 1)
       ELSE <<sectionMap[i]>> \o FirstOccurrences(sectionMap, i + 1)

HasDuplicateHeader(text) ==
  LET sectionMap == SectionMap(text) IN
  \E i, j \in 1..Len(sectionMap) : i < j /\ sectionMap[i].k = sectionMap[j].k

\* C11: in strict and in partial mode, every value of the map
\* ChatAdapter.parse returns is taken from the first section of that name,
\* and the outcome (map or failure) is the one the parser has when every
\* later section of an already seen name is absent.
C11_FirstOccurrenceWins ==
  (ParseFinished /\ parser = "ChatAdapter") =>
    LET sectionMap == SectionMap(completion) IN
    /\ parseOut.ok =>
         \A k \in DOMAIN parseOut.result :
           LET raw == sectionMap[FirstSection(sectionMap, k)].v
               r == parseValue(signature.types[k], Str(raw))
           IN /\ \E i \in 1..Len(sectionMap) : sectionMap[i].k = k
              /\ parseOut.result[k] = IF r.ok THEN r.value ELSE Str(raw)
    /\ parseOut = ParseSectionMap(signature, completion, allow_partial_output,
                                  FirstOccurrences(sectionMap, 1))

C11_Witness ==
  /\ parsePc = "returned"
  /\ parser = "ChatAdapter"
  /\ signature = SigTwo
  /\ completion = <<H1, LF, "x", LF, H2, LF, Digit, LF, H2, LF, "x", LF, H1, LF, Digit>>
  /\ HasDuplicateHeader(completion)
  /\ parseOut.result = [a1 |-> Str(<<"x">>), a2 |-> Num(7)]


\* The same field map, or the same failure (the error's lm_response is the
\* completion itself and is left out of the comparison).
SameOutcome(a, b) ==
  /\ a.ok = b.ok
  /\ a.result = b.result
  /\ a.error.name = b.error.name
  /\ a.error.message = b.error.message
  /\ a.error.parsed_result = b.error.parsed_result

\* The completion followed by a line that is the end-of-output sentinel.
WithSentinel(text) == text \o <<LF, HC>>

\* C12: for every signature and completion, ChatAdapter.parse gives the same
\* outcome (same field map or same failure) on the completion and on the
\* completion followed by a `[[ ## completed ## ]]` line.
C12_SentinelDoesNotMatter ==
  (ParseFinished /\ parser = "ChatAdapter") =>
    SameOutcome(parseOut,
                ChatAdapter_parse(signature, WithSentinel(completion),
                                  allow_partial_output))


\* JSON.parse(completion) throws, the `in` test throws on a primitive, or
\* parseValue throws on a value of the document.
JsonPathThrows(sig, text) ==
  LET parsed == JSONparse(text) IN
  \/ ~parsed.ok
  \/ parsed.prim /\ sig.output # <<>>
  \/ parsed.ok /\ ~parsed.prim /\ ~JsonFieldLoop(sig, parsed.doc, 1, <<>>).ok

\* C13: whenever JSON.parse or a coercion throws in JSONAdapter.parse, the
\* outcome is that of ChatAdapter.parse on the same completion (so a
\* marker-formatted completion gives the same field map), and
\* JSONAdapter.parse raises only where ChatAdapter.parse raises too.
C13_JsonParseDelegatesToMarkerParser ==
  (ParseFinished /\ parser = "JSONAdapter") =>
    LET chat == ChatAdapter_parse(signature, completion, allow_partial_output) IN
    /\ JsonPathThrows(signature, completion) => parseOut = chat
    /\ ~parseOut.ok => ~chat.ok
    /\ (SectionNames(completion) # {} /\ chat.ok) => parseOut = chat

C13_Witness ==
  /\ parsePc = "returned"
  /\ parser = "JSONAdapter"
  /\ signature = SigAnswer
  /\ completion = OnlyA1Completion
  /\ ~JSONparse(completion).ok
  /\ parseOut.result = [a1 |-> Str(<<"x">>)]


\* The text is one JSON object whose keys are exactly the output fields and
\* whose values follow the fields' schemas.
ConformingDocument(sig, text) ==
  LET parsed == JSONparse(text) IN
  /\ parsed.ok /\ ~parsed.prim
  /\ DOMAIN parsed.doc = output_fields(sig)
  /\ \A k \in output_fields(sig) : SchemaAccepts(sig.types[k], parsed.doc[k])

\* C14: on such a completion JSONAdapter.parse returns the map that holds
\* the document's typed value for every output field (text, number,
\* boolean, nested object or array).
C14_JsonDocumentGivesTypedValues ==
  (ParseFinished /\ parser = "JSONAdapter"
     /\ ConformingDocument(signature, completion)) =>
    /\ parsePc = "returned"
    /\ parseOut.result = JSONparse(completion).doc

\* C16: for a boolean field the trimmed text true/false in any letter case
\* gives the boolean, for a number field a text that is a finite number
\* gives the number; every other text (empty, blank, non-finite, anything
\* else) makes parseValue throw.
C16_ScalarCoercionOrFailure ==
  (pvPc \in {"returned", "threw"} /\ pvValue.t = "str") =>
    LET t == Trim(pvValue.s) IN
    /\ pvSchema = "boolean" =>
         IF LowerCase(t) \in {<<"true">>, <<"false">>}
         THEN pvOut = Returned(Bool(LowerCase(t) = <<"true">>))
         ELSE pvPc = "threw"
    /\ pvSchema = "number" =>
         IF AllDigits(t) THEN pvOut = Returned(Num(DigitsValue(t)))
         ELSE pvPc = "threw"


\* C15: the assistant message the adapter formats for output values without
\* custom types parses back to those values: every text field to the same
\* text, every number and boolean field to the same number or boolean.
C15_FormatThenParseRoundTrips ==
  (ParseFinished /\ outputs # <<>>) =>
    /\ parsePc = "returned"
    /\ \A k \in output_fields(signature) : parseOut.result[k] = outputs[k]


\* C37: an AdapterParseError raised by ChatAdapter.parse or JSONAdapter.parse
\* names an adapter and carries the signature, the whole completion and the
\* map of the fields parsed before the failure.
C37_ParseErrorCarriesContext ==
  (parsePc = "raised" /\ parseOut.error.name = "AdapterParseError") =>
    /\ parseOut.error.adapter_name \in {"ChatAdapter", "JSONAdapter"}
    /\ parseOut.error.signature = signature.id
    /\ parseOut.error.lm_response = completion
    /\ parseOut.error.parsed_result.present

\* ------------------------------------------------------------------------
\* Properties of format (SpecFormat)
\* ------------------------------------------------------------------------
FormatDone == fpc = "done"

\* The messages between the system message and the current turn.
Body == SubSeq(messages, 2, Len(messages) - 1)

HasDisclaimer(m) == Disclaimer \in Range(m.content)

AllFieldsSupplied(sig, demo) ==
  \A key \in Range(sig.input) \cup Range(sig.output) :
    ValueOf(demo, key) \notin {Undefined, Null}
SomeInputAndOutput(sig, demo) ==
  /\ \E key \in Range(sig.input) : ValueOf(demo, key) # Undefined
  /\ \E key \in Range(sig.output) : ValueOf(demo, key) # Undefined

DemoMessages(i) ==
  {j \in 1..Len(messages) : messages[j].part = "demo" /\ messages[j].of = i}

\* C18: a demo is rendered without the disclaimer iff all its input and all
\* its output fields are present and non-null; it is rendered with the
\* disclaimer iff it is not complete but has an input and an output field;
\* every other demo contributes no message.
C18_DemoClassification ==
  FormatDone =>
    \A i \in 1..Len(demos) :
      LET complete == AllFieldsSupplied(fSig, demos[i])
          usable == ~complete /\ SomeInputAndOutput(fSig, demos[i])
          user == {j \in DemoMessages(i) : messages[j].role = "user"}
      IN
      /\ Cardinality(DemoMessages(i)) = IF complete \/ usable THEN 2 ELSE 0
      /\ \A j \in user : HasDisclaimer(messages[j]) = usable

HasRequirements(m) ==
  \E a \in {"ChatAdapter", "JSONAdapter"} :
    user_message_output_requirements(a, fSig)[1] \in Range(m.content)

\* C19: in ChatAdapter and in JSONAdapter, the adapter's "respond with these
\* output fields" instruction is in the current-turn user message, the last
\* one, and in no demo, history or system message.
C19_RequirementsOnlyInMainTurn ==
  /\ \A i \in 1..Len(messages) :
       HasRequirements(messages[i]) => messages[i].part = "main"
  /\ FormatDone =>
       LET last == messages[Len(messages)] IN
       /\ last.part = "main" /\ last.role = "user"
       /\ user_message_output_requirements(fAdapter, fSig)[1]
            \in Range(last.content)

C19_Witness ==
  /\ FormatDone
  /\ fAdapter = "JSONAdapter"
  /\ fSig = FSigHistory
  /\ Len(messages) = 6
  /\ \E i \in 2..5 : messages[i].part = "history"
  /\ \E i \in 2..5 : messages[i].part = "demo"
  /\ HasRequirements(messages[6])

\* C20: a history field holding n records gives n [user, assistant] pairs,
\* in record order, each rendered with the signature without the history
\* field, after the demo messages and before the current turn; the current
\* turn does not render the history field.
C20_HistoryPairs ==
  (FormatDone /\ HistoryFieldName(fSig) # NoHistory
     /\ ValueOf(inputs, HistoryFieldName(fSig)).t = "array") =>
    LET name == HistoryFieldName(fSig)
        records == inputs[name].s
        n == Len(records)
        sig == SignatureDelete(fSig, name)
        total == Len(messages)
        first == total - 2 * n
    IN
    /\ Cardinality({j \in 1..total : messages[j].part = "history"}) = 2 * n
    /\ \A i \in 1..n :
         LET user == messages[first + 2 * i - 2]
             assistant == messages[first + 2 * i - 1]
         IN
         /\ user.role = "user" /\ user.part = "history" /\ user.of = i
         /\ assistant.role = "assistant" /\ assistant.part = "history"
         /\ assistant.of = i
         /\ \A k \in Range(fSig.input) :
              Header(k) \in Range(user.content)
                <=> (k # name /\ k \in DOMAIN records[i])
         /\ user.content =
              format_user_message_content(fAdapter, sig, records[i], <<>>, FALSE)
         /\ assistant.content =
              format_assistant_message_content(fAdapter, sig, records[i],
                                               Undefined)
    /\ \A j \in 1..(first - 1) : messages[j].part \in {"system", "demo"}
    /\ messages[total].part = "main"
    /\ Header(name) \notin Range(messages[total].content)
    /\ Header("q1") \in Range(messages[total].content)

C20_Witness ==
  /\ FormatDone
  /\ fSig = FSigHistory
  /\ ValueOf(inputs, "history") =
       Array(<<[q1 |-> Str(<<"x">>), a1 |-> Str(<<"x">>)], [q1 |-> Str(<<"x">>)]>>)
  /\ demos # <<>>
  /\ Len(messages) = 8
  /\ messages[4].part = "history" /\ messages[7].part = "history"


\* C40: no step of format changes the caller's inputs object (its keys and
\* values, the history records among them) or the demos.
C40_FormatLeavesCallerObjects ==
  [][inputs' = inputs /\ demos' = demos]_vars

\* format has returned for inputs with a history of records: the history
\* was rendered and deleted from inputsCopy, and the caller's object has it.
C40_Witness ==
  /\ fpc = "done"
  /\ fSig = FSigHistory
  /\ "history" \in DOMAIN inputs
  /\ inputs["history"].t = "array"
  /\ Len(inputs["history"].s) = MaxHistory
  /\ "history" \notin DOMAIN inputsCopy
  /\ conversationHistory # <<>>
  /\ demos # <<>>

\* ------------------------------------------------------------------------
\* Properties of custom types (SpecCustom)
\* ------------------------------------------------------------------------
\* C21: format_field_value on a custom-type field with a context map returns
\* a marker that differs from the value and adds exactly one entry to the
\* map, holding the field and the value; the entries that were in the map,
\* the other maps, the inputs and everything else stay as they were.
C21_CustomFieldAddsOneEntry ==
  [][(cpc = "fields" /\ cNext' = cNext + 1
        /\ is_custom_type(cFields[cNext].type))
     => LET field == cFields[cNext]
            old == maps[context]
            new == maps'[context]
            added == DOMAIN new \ DOMAIN old
            returned == cContent'[Len(cContent')]
        IN /\ Cardinality(added) = 1
           /\ \A id \in added :
                /\ new[id] = [type |-> field.type, value |-> field.value]
                /\ returned = Marker(id)
           /\ <<returned>> # field.value
           /\ \A id \in DOMAIN old : id \in DOMAIN new /\ new[id] = old[id]
           /\ \A i \in 1..Len(maps) : i # context => maps'[i] = maps[i]
           /\ Len(maps') = Len(maps)
           /\ UNCHANGED <<CustomFrame, context, cFields, cMessages, cpc,
                          calls>>]_vars

\* a second entry has been added to a map that held one
C21_Witness ==
  /\ context # 0
  /\ Cardinality(DOMAIN maps[context]) = 2
  /\ \E i \in 1..Len(cFields) : cFields[i].value = <<Marker(0)>>

\* The blocks the markers of a text stand for, left to right, and the text
\* without its markers.
MarkerIds(content) ==
  LET at == matchAll(content) IN [j \in 1..Len(at) |-> content[at[j]].id]

RECURSIVE FormattedBlocks(_, _)
FormattedBlocks(ids, fields) ==
  IF ids = <<>> THEN <<>>
  ELSE meta_format(fields[1].type, fields[1].value)
         \o FormattedBlocks(Tail(ids), Tail(fields))

RECURSIVE TextOfBlocks(_)
TextOfBlocks(blocks) ==
  IF blocks = <<>> THEN <<>>
  ELSE (IF blocks[1].type = "text" THEN blocks[1].text ELSE <<>>)
         \o TextOfBlocks(Tail(blocks))

\* The blocks before the first block that is no text: empty, or one text
\* block.
LeadingText(blocks) ==
  IF blocks # <<>> /\ blocks[1].type = "text" THEN <<blocks[1]>> ELSE <<>>

\* C22: when format returns, no text of a user message holds a marker; a
\* user message that had markers is a list of blocks: the blocks the
\* formatter of each marker's custom type gives for the stored value, in the
\* order of the markers, with the text around them as text blocks in order;
\* a message without markers keeps its text; format fails exactly when a
\* marker's id is not in the context map.
C22_MarkersBecomeBlocks ==
  /\ cpc = "returned" =>
       LET m == cMessages[Len(cMessages)]
           ids == MarkerIds(UserContent)
           customFields == SelectSeq(cFields, LAMBDA f : is_custom_type(f.type))
           plain == SelectSeq(UserContent, LAMBDA t : t.k # "marker")
           notText == SelectSeq(m.blocks, LAMBDA b : b.type # "text")
       IN /\ m.role = "user"
          /\ ids = emitted
          /\ \A i \in 1..Len(cMessages) :
               /\ \A j \in 1..Len(cMessages[i].content) :
                    cMessages[i].content[j].k # "marker"
               /\ \A b \in 1..Len(cMessages[i].blocks) :
                    \A j \in 1..Len(cMessages[i].blocks[b].text) :
                       cMessages[i].blocks[b].text[j].k # "marker"
          /\ cMessages[1] = TextMessage("system", <<Text("x")>>)
          /\ ids = <<>> => m = TextMessage("user", UserContent)
          /\ ids # <<>> =>
               /\ ~m.isString
               /\ notText = FormattedBlocks(ids, customFields)
               /\ TextOfBlocks(m.blocks) = plain
               /\ \A b \in 1..Len(m.blocks) :
                    m.blocks[b].type = "text" =>
                      /\ m.blocks[b].text # <<>>
                      /\ b < Len(m.blocks) => m.blocks[b + 1].type # "text"
               /\ LeadingText(m.blocks) =
                    <<Block("text", SubSeq(UserContent, 1, matchAll(UserContent)[1] - 1), <<>>)>>
  /\ cpc \in {"returned", "failed"} =>
       (cpc = "failed" <=>
          \E j \in 1..Len(cContent) :
             cContent[j].k = "marker" /\ cContent[j].id \notin Range(emitted))

\* a returned user message with two markers, and next to it a failed call
C22_Witness ==
  /\ cpc = "returned"
  /\ Len(emitted) = 2
  /\ Len(cMessages[Len(cMessages)].blocks) >= 5

\* C23: every call of format has a context map of its own: the map of the
\* running call holds the ids that call emitted and no others, the maps of
\* different calls share no id, a marker is resolved from the running call's
\* map only (the marker of another call makes format fail), and no call's
\* `context` is bound once the call is over.
C23_ContextMapPerCall ==
  /\ Len(maps) = calls
  /\ \A i, j \in 1..Len(maps) :
       i # j => DOMAIN maps[i] \cap DOMAIN maps[j] = {}
  /\ context # 0 => DOMAIN maps[context] = Range(emitted)
  /\ cpc \in {"idle", "returned", "failed"} <=> context = 0
  /\ cpc = "fields" => context = calls
  /\ cpc = "returned" => Range(MarkerIds(cContent)) \subseteq Range(emitted)

\* the second call has returned blocks, the first call's map holds an entry
C23_Witness ==
  /\ calls = 2
  /\ cpc = "returned"
  /\ emitted # <<>>
  /\ DOMAIN maps[1] # {}

\* ------------------------------------------------------------------------
\* Properties of the partial-output stream (SpecStream)
\* ------------------------------------------------------------------------
\* The concatenation of the first k deltas.
RECURSIVE Cumulative(_)
Cumulative(k) == IF k = 0 THEN <<>> ELSE Cumulative(k - 1) \o deltas[k]

C25_CancelStopsParser ==
  [][cancelled => (parseCalls' = parseCalls /\ pulled' = pulled)]_vars

\* The partial outputs not yet handed to the consumer that are still its to
\* read: the queue of the ReadableStream for a reader; an iterator has no
\* queue to read from.
Readable == IF consumer = "reader" THEN queue ELSE <<>>

\* C38: as long as the consumer of partialOutputStream has not cancelled,
\* what it has received are the first partial outputs the generator
\* yielded, in that order, and what it has not received yet is still there
\* for it to read: none is skipped or taken by another reader.
C38_ConsumerReceivesEveryPartialOutput ==
  ~cancelled => received \o Readable = yielded

\* ------------------------------------------------------------------------
\* Properties of signatures and predictors (SpecState)
\* ------------------------------------------------------------------------
\* C26: delete, withInstructions and load_state return a Signature object
\* that did not exist before, and no Signature object that existed before
\* the call (the receiver among them) differs after it in instructions,
\* input schema, output schema, prefixes or tools.
C26_ReceiverNeverMutated ==
  [][(ops' = ops + 1
        /\ sop'.op \in {"delete", "withInstructions", "load_state"})
     => /\ \A i \in 1..Len(sigs) : sigs'[i] = sigs[i]
        /\ sigs'[sop'.receiver] = sop'.before
        /\ ~sop'.threw =>
             /\ sop'.returned = Len(sigs) + 1
             /\ Len(sigs') = Len(sigs) + 1]_vars

\* load_state has returned a signature whose state differs from the
\* receiver's, after an earlier call on the same receiver
C26_Witness ==
  /\ ops = 2
  /\ sop.op = "load_state"
  /\ ~sop.threw
  /\ Len(sigs) = 6
  /\ dump_state(sigs[sop.returned]) # dump_state(sigs[sop.receiver])
  /\ sigs[sop.returned].input.fields # sigs[sop.receiver].input.fields

\* C27: s.load_state(s.dump_state()) returns a signature whose dump_state()
\* equals s.dump_state(), and s is as it was.
C27_LoadOfDumpIsIdentity ==
  (sop.op = "load_state" /\ sop.state = dump_state(sop.before)) =>
    /\ ~sop.threw
    /\ dump_state(sigs[sop.returned]) = sop.state
    /\ sigs[sop.receiver] = sop.before

\* The prefixes of the entries, and the description the last entry with the
\* prefix carries.
EntryPrefixes(state) == {state.fields[i].prefix : i \in 1..Len(state.fields)}

\* C28: load_state returns; a field whose prefix no entry carries is the
\* identical schema object in the returned signature; a field whose prefix an
\* entry carries keeps its other metadata; the names, the prefixes and the
\* tools are the receiver's.
C28_LoadChangesOnlyDescriptions ==
  sop.op = "load_state" =>
    /\ ~sop.threw
    /\ LET old == sop.before
           new == sigs[sop.returned]
       IN /\ new.prefixes = old.prefixes
          /\ new.tools = old.tools
          /\ new.input.names = old.input.names
          /\ new.output.names = old.output.names
          /\ \A n \in Range(old.input.names) :
               /\ new.input.fields[n].original = old.input.fields[n].original
               /\ old.prefixes[n] \notin EntryPrefixes(sop.state) =>
                    new.input.fields[n] = old.input.fields[n]
          /\ \A n \in Range(old.output.names) :
               /\ new.output.fields[n].original = old.output.fields[n].original
               /\ old.prefixes[n] \notin EntryPrefixes(sop.state) =>
                    new.output.fields[n] = old.output.fields[n]

\* C29: after m2.load_state(m1.dump_state()) every predictor of m2 refers
\* to a signature that has the loaded state: m2.dump_state() equals
\* m1.dump_state().
C29_ModuleLoadOfDump ==
  sop.op = "Module.load_state" =>
    /\ ~sop.threw
    /\ Module_dump_state(sigs, predictors[sop.module]) = sop.states

\* Is the zod object `new` the object `old` less at most one field, the
\* remaining fields being the same objects in the same order?
CarriedOver(old, new) ==
  /\ Len(new.names) >= Len(old.names) - 1
  /\ new.names = SelectSeq(old.names, LAMBDA n : n \in Range(new.names))
  /\ \A n \in Range(new.names) : new.fields[n] = old.fields[n]

\* C39: the signature delete returns has the receiver's instructions and
\* tools and its input and output fields less the removed one; the
\* signature withInstructions returns has the receiver's tools, input and
\* output.
C39_DerivedSignatureKeepsTheRest ==
  sop.op \in {"delete", "withInstructions"} =>
    LET old == sop.before
        new == sigs[sop.returned]
    IN /\ new.tools = old.tools
       /\ CarriedOver(old.input, new.input)
       /\ CarriedOver(old.output, new.output)
       /\ sop.op = "delete" =>
            /\ new.instructions = old.instructions
            /\ Len(new.input.names) + Len(new.output.names)
                 >= Len(old.input.names) + Len(old.output.names) - 1
       /\ sop.op = "withInstructions" =>
            /\ new.input = old.input
            /\ new.output = old.output

\* ------------------------------------------------------------------------
\* Properties of Module.run (SpecTrace)
\* ------------------------------------------------------------------------
\* C30: when the run of module 1 is over, its traces hold one entry per run
\* of the call tree, in the order the runs finished: the entries of a run's
\* sub-runs before its own, the entry of module 1 last.
C30_OneEntryPerInvocation ==
  stack = <<>> => traces[1] = completed

\* The number of times entry e occurs in the trace t.
Occurrences(t, e) == Cardinality({i \in 1..Len(t) : t[i] = e})

\* C31: at every point of a run, no trace holds an entry twice: neither the
\* `traces` of a module nor the currentRunTrace of a run in progress; a run
\* that ends adds to the enclosing run's trace the entries produced by that
\* run only.
C31_TraceAggregationIsAdditive ==
  /\ \A m \in 1..MaxModules :
       \A e \in Range(traces[m]) : Occurrences(traces[m], e) = 1
  /\ \A i \in 1..Len(stack) :
       \A e \in Range(stack[i].currentRunTrace) :
         Occurrences(stack[i].currentRunTrace, e) = 1

\* C32: a run of two runs in flight at once collects entries of its own call
\* tree only, whatever the interleaving and whatever the two trees share.
C32_RunsDoNotObserveEachOther ==
  \A r \in Runs :
    \A e \in Range(collected[r]) : e.invocation \in tree[r]

\* ------------------------------------------------------------------------
\* Properties of the field-type functions (SpecTypes)
\* ------------------------------------------------------------------------
\* C33: get_annotation_name never fails: no call ends in the RangeError of
\* an exhausted call stack, and no activation calls def.getter() twice.
C33_AnnotationNameTerminates ==
  /\ named.kind # "threw"
  /\ \A i \in 1..Len(frames) : frames[i].getter <= 1

\* The schema objects with a metadata name met by a depth-first walk from
\* schema n through every nested schema, one per occurrence.
RECURSIVE NestedCustomTypes(_, _)
RECURSIVE NestedOfEach(_, _)
NestedOfEach(heap, children) ==
  IF children = <<>> THEN <<>>
  ELSE NestedCustomTypes(heap, children[1])
       \o NestedOfEach(heap, Tail(children))

NestedCustomTypes(heap, n) ==
  (IF heap[n].name # "" THEN <<n>> ELSE <<>>)
  \o NestedOfEach(heap, TraversedAll(heap[n]))

\* No getter of a lazy schema returns the schema itself or one that was
\* built before it.
Acyclic(heap) ==
  \A i \in 1..Len(heap) : \A c \in Range(heap[i].children) : c > i

\* C35: on a schema without cycles, extract_custom_type_from_annotation
\* returns the schema objects with a metadata name in depth-first order,
\* one per occurrence, whatever the containers, composites and wrappers
\* they are nested in.
C35_ExtractReturnsEveryOccurrence ==
  (extracted.kind # "none" /\ Acyclic(schemas)) =>
    /\ extracted.kind = "returned"
    /\ extracted.result = NestedCustomTypes(schemas, 1)

\* ------------------------------------------------------------------------
\* Properties of the blob formatting (SpecBlob)
\* ------------------------------------------------------------------------
\* A blob wrapped as the claim of C36 says: in a pair of angle quotes when
\* it is one line; else in a triple-angle block, each line on a line of its
\* own behind four spaces.
Wrapped(blob) ==
  IF LF \notin Range(blob) THEN <<LQ>> \o blob \o <<RQ>>
  ELSE <<LQ, LQ, LQ, LF>> \o Indent
       \o replaceAll(blob, LF, <<LF>> \o Indent)
       \o <<LF, RQ, RQ, RQ>>

\* C36: a list of blobs is rendered as N/A when empty, as the wrapped blob
\* when it has one element, and else as one line `[i] ` followed by the
\* wrapped blob per element, i counting from 1.
C36_BlobListRendering ==
  string_value # NotFormatted =>
    string_value =
      IF Len(blobs) = 0 THEN <<"N/A">>
      ELSE IF Len(blobs) = 1 THEN Wrapped(blobs[1])
      ELSE JoinWith([i \in 1..Len(blobs) |->
                       <<"[", IndexText(i), "]", SP>> \o Wrapped(blobs[i])],
                    LF)

\* ------------------------------------------------------------------------
\* Properties of run / stream (SpecRun)
\* ------------------------------------------------------------------------
Finished == pc = "done"

EventsOf(n, ev) == {i \in 1..Len(events) : events[i].attempt = n /\ events[i].ev = ev}

PrimaryFailedInParse == thrown # <<>> /\ thrown[1].kind = "parse"

\* C1: ChatAdapter.run with the fallback enabled, the primary attempt failing
\* in parse and the secondary attempt not failing: run returns the
\* secondary's result (the object the second LM call returned), the
\* secondary pipeline ran exactly once and the LM was called exactly twice.
C1_FallbackReturnsSecondaryResult ==
  (/\ Finished
   /\ op = "run" /\ self = "ChatAdapter" /\ use_json_adapter_fallback
   /\ PrimaryFailedInParse
   /\ Len(thrown) = 1)
  =>
  /\ outcome.kind = "result"
  /\ ~outcome.proxy
  /\ attempt = 2
  /\ Cardinality(EventsOf(2, "format")) = 1
  /\ Len(lm_calls) = 2
  /\ lm_calls[1].adapter = "ChatAdapter" /\ ~lm_calls[1].output
  /\ lm_calls[2].adapter = "JSONAdapter" /\ lm_calls[2].output
  /\ events[Len(events)] = Event(2, "lm_return", result.text)
  /\ result = lmReturned

C1_Witness ==
  /\ Finished
  /\ op = "run" /\ self = "ChatAdapter" /\ use_json_adapter_fallback
  /\ PrimaryFailedInParse
  /\ outcome.kind = "result"
  /\ Len(lm_calls) = 2
  /\ result.output = [a1 |-> Str(<<"x">>)]

\* The positions at which a step of the call is enabled: Format at "format",
\* CallLM at "call", LMReturns and LMThrows at "await", Parse at "parse",
\* CatchRethrow or CatchFallback at "catch".
CanStep == pc \in {"format", "call", "await", "parse", "catch"}

\* C2: for every call of run or stream, on either adapter, whatever format,
\* the LM and parse do: at most two attempts and at most two LM calls; an
\* error of the secondary attempt ends the call with an error; the call
\* never stops before it has a result or an error.
C2_AtMostTwoAttempts ==
  /\ attempt \in {1, 2}
  /\ Len(lm_calls) <= 2
  /\ \A n \in {1, 2} : Cardinality(EventsOf(n, "format")) <= 1
  /\ \A n \in {1, 2} : Cardinality(EventsOf(n, "lm_call")) <= 1
  /\ (\E i \in 1..Len(thrown) : thrown[i].attempt = 2) =>
       (Finished /\ outcome.kind = "error")
  /\ Finished => outcome.kind \in {"result", "error"}
  /\ ~Finished => CanStep

C2_Witness ==
  /\ Finished
  /\ attempt = 2
  /\ Len(lm_calls) = 2
  /\ Len(thrown) = 2 /\ thrown[2].attempt = 2
  /\ outcome.kind = "error"

\* C3: on a JSONAdapter, or with use_json_adapter_fallback = false, a failed
\* attempt is followed by no second attempt and no second LM call, and the
\* caller gets the error that was thrown, unchanged.
C3_NoFallbackRethrowsOriginal ==
  (self = "JSONAdapter" \/ ~use_json_adapter_fallback) =>
    /\ attempt = 1
    /\ Len(lm_calls) <= 1
    /\ Len(thrown) <= 1
    /\ (Finished /\ thrown # <<>>) =>
         (outcome.kind = "error" /\ outcome.error = thrown[1])

C3_Witness ==
  /\ Finished
  /\ self = "ChatAdapter" /\ ~use_json_adapter_fallback
  /\ PrimaryFailedInParse
  /\ outcome.kind = "error" /\ outcome.error = thrown[1]
  /\ Len(lm_calls) = 1

\* C4: only a parse failure of the primary attempt starts the secondary
\* attempt; an error of the primary's format step or of the LM call ends
\* run/stream with that error, without a secondary attempt and without a
\* further LM call.
C4_OnlyParseFailureStartsSecondary ==
  (thrown # <<>> /\ thrown[1].kind \in {"format", "lm"}) =>
    /\ attempt = 1
    /\ Len(lm_calls) = (IF thrown[1].kind = "lm" THEN 1 ELSE 0)
    /\ Finished => (outcome.kind = "error" /\ outcome.error = thrown[1])

PrimaryAndSecondaryFailed ==
  /\ Finished
  /\ PrimaryFailedInParse
  /\ Len(thrown) = 2

\* C5 as stated: when the primary attempt fails in parse and the secondary
\* attempt fails too, the caller gets the primary's parse error.
C5_PrimaryParseErrorReachesCaller ==
  PrimaryAndSecondaryFailed =>
    (outcome.kind = "error" /\ outcome.error = thrown[1])

\* C5 amended: in that case the caller gets the error of the secondary
\* attempt, unchanged and not wrapped; the primary's parse error is dropped.
C5_SecondaryErrorReachesCaller ==
  PrimaryAndSecondaryFailed =>
    /\ outcome.kind = "error"
    /\ outcome.error = thrown[2]
    /\ thrown[2].attempt = 2
    /\ thrown[2].kind \in {"format", "lm"}
    /\ outcome.error # thrown[1]

C5_Witness ==
  /\ PrimaryAndSecondaryFailed
  /\ thrown[1].error.name = "AdapterParseError"
  /\ outcome.error = Error("lm", 2, NoError)

\* C6: on a successful marker-text run, `output` of the returned object is
\* parse(signature, result.text), every other property reads as on the LM's
\* response, and the LM's response object is as the LM returned it.
C6_ProxyReplacesOnlyOutput ==
  (Finished /\ op = "run" /\ outcome.kind = "result" /\ outcome.proxy) =>
    LET expected == ChatAdapter_parse(signature, lmReturned.text, FALSE) IN
    /\ expected.ok
    /\ ProxyGet(result, outcome.parsed, "output") = expected.result
    /\ \A prop \in ResultProps \ {"output"} :
         ProxyGet(result, outcome.parsed, prop) = lmReturned[prop]
    /\ result = lmReturned

C6_Witness ==
  /\ Finished /\ op = "run" /\ outcome.kind = "result" /\ outcome.proxy
  /\ signature = SigAnswer
  /\ result.output = NoOutput
  /\ ProxyGet(result, outcome.parsed, "output") = [a1 |-> Str(<<"x">>)]
  /\ ProxyGet(result, outcome.parsed, "finishReason") = "length"

\* C7: in every attempt of run, format is complete before the LM call is
\* issued, the LM is called once, nothing happens between the call and its
\* return, and parse runs only after that return and on the text returned.
C7_FormatCallParseInOrder ==
  op = "run" =>
    /\ \A i \in 1..Len(events) :
         LET e == events[i] IN
         /\ e.ev = "format" => (i = 1 \/ events[i - 1].attempt < e.attempt)
         /\ e.ev = "lm_call" =>
              (i > 1 /\ events[i - 1] = Event(e.attempt, "format", <<>>))
         /\ e.ev \in {"lm_return", "lm_error"} =>
              (i > 1 /\ events[i - 1] = Event(e.attempt, "lm_call", <<>>))
         /\ e.ev = "parse" =>
              (i > 1 /\ events[i - 1] = Event(e.attempt, "lm_return", e.text))
    /\ \A n \in 1..attempt : Cardinality(EventsOf(n, "lm_call")) <= 1
    /\ pc = "await" => events[Len(events)].ev = "lm_call"
    /\ pc = "parse" => events[Len(events)].ev = "lm_return"
    /\ (Finished /\ outcome.kind = "result") =>
         Cardinality(EventsOf(attempt, "lm_call")) = 1

C7_Witness ==
  /\ op = "run" /\ Finished /\ outcome.kind = "result"
  /\ events = <<Event(1, "format", <<>>), Event(1, "lm_call", <<>>),
                Event(1, "lm_return", <<H1, LF, "x">>),
                Event(1, "parse", <<H1, LF, "x">>)>>

\* C34: a run whose result comes from the secondary attempt has formatted
\* once, called the LM once and parsed that call's text in the secondary
\* attempt, in this order, and its result exposes the parsed field map as
\* `output`.
C34_SecondaryRunsWholePipeline ==
  (Finished /\ op = "run" /\ attempt = 2 /\ outcome.kind = "result") =>
    /\ adapter = "JSONAdapter"
    /\ Cardinality(EventsOf(2, "format")) = 1
    /\ Cardinality(EventsOf(2, "lm_call")) = 1
    /\ \E f \in EventsOf(2, "format"), c \in EventsOf(2, "lm_call"),
          r \in EventsOf(2, "lm_return"), p \in EventsOf(2, "parse") :
         /\ f < c /\ c < r /\ r < p
         /\ events[p].text = result.text
    /\ outcome.proxy
    /\ LET parsed == JSONAdapter_parse(signature, result.text, FALSE)
       IN parsed.ok /\ outcome.parsed = parsed.result

====
